---- MODULE Spec2Model ----
(***************************************************************************)
(* Scan orchestration controller of scripts/texture_server.py              *)
(* (class ScanController): the start gate, the status record, the pipeline *)
(* thread _run_scan with its cleanup block, and the button callback.       *)
(*                                                                         *)
(* Threads: the request-handling contexts (Callers) that call start_scan,  *)
(* and one pipeline thread per accepted scan id.  Every action is one      *)
(* step of one thread; steps of different threads interleave freely.       *)
(* Progress fractions are kept as integer percentages (0.05 -> 5).         *)
(***************************************************************************)
EXTENDS Integers, Sequences, FiniteSets, TLC

(* ---------------- bounds of the model ---------------- *)
MaxScans == 2      \* scan ids handed out in one behaviour
MaxFaults == 1     \* failures of hardware, files and tools in one behaviour
MaxOvertake == 4   \* steps later pipeline threads take while an earlier
                   \* thread is still in the last part of its cleanup
MaxSoloScans == 1  \* scan ids handed out in a behaviour of SpecOne
MaxWriters == 2    \* threads that call lcd_write concurrently
MaxApiFaults == 0  \* failures in a behaviour of SpecApi
MaxReads == 2      \* successful reads of the DHT sensor in one behaviour
MaxRequests == 2   \* /temp requests handled at the same time

(* ---------------- program constants ---------------- *)
CLICK == 2
DBLCLICK == 4
LONGPRESS == 8
NOISE == 16
POSITION_ITEM_COUNTDOWN == 3
TEXTURE_COUNTDOWN == 5

LIGHTING_SCHEDULE ==
    << "candlelight", "warm_indoor", "neutral_white", "direct_sunlight", "overcast" >>

(* file names are tuples of their parts, so that the photo names can be   *)
(* built from the lighting name as the f-strings of the source build them *)
METADATA_LABEL_TXT == << "metadata_label.txt" >>
AUDIO_TEXTURE_RAW == << "audio_texture_raw.wav" >>
AUDIO_TEXTURE_NODC == << "audio_texture_nodc.wav" >>
AUDIO_TEXTURE_NORM == << "audio_texture_norm.wav" >>
TEXTURE_SPECTROGRAM == << "texture_spectrogram.png" >>
TEXTURE_SCAN_JSON == << "texture_scan.json" >>
RESULTS_FINAL_JSON == << "results_final.json" >>
GENERATED_PRODUCT_IMAGE == << "generated_product.png" >>
METADATA_LABEL_JSON == << "metadata_label.json" >>

get_photo_filename(name) == << "photo_", name, ".jpg" >>
get_photo_meta_filename(name) == << "photo_", name, ".meta.json" >>

(* ---------------- identities ---------------- *)
HTTP == "http"
BUTTON == "button"
Callers == {HTTP, BUTTON}
(* the request handlers that answer a client: POST /scan/start (HTTP),    *)
(* the button callback (which answers nobody), POST /scan/{scan_id}/label *)
(* and GET /scan/status                                                   *)
LABEL == "label"
STATUS == "status"
Endpoints == Callers \cup {LABEL, STATUS}
ScanIds == 1..MaxScans
NoId == 0
NoLock == "none"
(* what POST /scan/start answered: nothing yet, {"ok": True, "scan_id": *)
(* id}, or the 409 made from RuntimeError("Scan already in progress")   *)
Response(kind, id) == [ kind |-> kind, scan_id |-> id ]
NoResult == Response("none", NoId)
BusyError == Response("Scan already in progress", NoId)
Accepted(id) == Response("ok", id)
(* what POST /scan/{scan_id}/label answered: {"ok": True}, the 404 made  *)
(* from FileNotFoundError, or the 500 of an exception nobody catches     *)
Labeled(id) == Response("labeled", id)
NotFound(id) == Response("scan_id not found", id)
ServerError(id) == Response("Internal Server Error", id)

(* button event codes delivered by the button library (bit masks) *)
ButtonCodes == {CLICK, DBLCLICK, LONGPRESS, NOISE, CLICK + LONGPRESS}
HasBit(code, bit) == (code \div bit) % 2 = 1

(* operator input at the terminal prompt, as a sequence of characters *)
LabelInputs == { << >>, << " " >>, << "d" >>, << " ", "d", " " >> }
UNLABELED == << "unlabeled" >>

RECURSIVE lstrip(_)
lstrip(s) == IF s = << >> THEN s
             ELSE IF Head(s) = " " THEN lstrip(Tail(s)) ELSE s

RECURSIVE rstrip(_)
rstrip(s) == IF s = << >> THEN s
             ELSE IF s[Len(s)] = " " THEN rstrip(SubSeq(s, 1, Len(s) - 1)) ELSE s

strip(s) == rstrip(lstrip(s))

(* Python's None where the other values are names, and a file that was   *)
(* never written; a document is a record of the keys of its JSON object  *)
None == << >>
NoDoc == [ absent |-> TRUE ]
NoDocs == [ label_txt |-> NoDoc, label_json |-> NoDoc,
            texture_scan |-> NoDoc, results_final |-> NoDoc ]

VARIABLES
    status,      \* self.status : ScanStatus
    busy,        \* self._busy : threading.Event
    lockOwner,   \* holder of self._lock
    nextId,      \* source of fresh scan ids (timestamp + uuid)
    cpc,         \* position of each caller inside start_scan
    cres,        \* the answer each endpoint gave in the step just taken
    cid,         \* start_scan local scan_id of each caller
    pc,          \* position of each pipeline thread inside _run_scan
    label,       \* _run_scan local label
    typed,       \* what the operator typed at the prompt of the session
    exc,         \* _run_scan: the exception caught by "except Exception as e"
    last_id,     \* cleanup local last_id
    last_msg,    \* cleanup local last_msg
    idx,         \* loop counter of the running countdown / lighting loop
    ring,        \* colour shown by the ring light ("off" or a schedule name)
    led,         \* button LED
    ae,          \* camera auto-exposure enabled
    dirs,        \* scan ids that have a directory under SCAN_ROOT
    files,       \* files present in each scan directory
    docs,        \* what the label files and the two result documents hold
    captured_images, \* _capture_photos local: lighting name and file name
    audio_data,  \* _process_audio local: the audio record
    faults,      \* number of failures injected so far
    failed,      \* per running session: the steps of it that failed
    cleared,     \* sessions whose cleanup executed self._busy.clear()
    accepted,    \* sessions for which start_scan created the status record
    overtake,    \* steps taken by later threads during a pending cleanup
    lcd,         \* self.lcd and self.lcd_lock: lock holder, cursor, rows
    lcd_call,     \* per thread inside lcd_write: position, l1, l2
    ingest_call, \* the last extraction of the tactile values and ingest call
    sensor       \* sensor_service.py: data_lock, latest_data, its threads

ctlVars == << status, busy, lockOwner, nextId >>
callerVars == << cpc, cid >>
localVars == << label, typed, exc, last_id, last_msg, idx, captured_images,
               audio_data >>
hwVars == << ring, led, ae >>
fsVars == << dirs, files, docs >>
ghostVars == << faults, failed, cleared, accepted >>
lcdVars == << lcd, lcd_call >>
vars == << status, busy, lockOwner, nextId, cpc, cres, cid, pc, label, typed, exc,
           last_id, last_msg, idx, ring, led, ae, dirs, files, docs,
           captured_images, audio_data,
           faults, failed, cleared, accepted, overtake, lcd, lcd_call,
           ingest_call, sensor >>

(* ---------------- the display ---------------- *)

(* the threads that write the display, text as a sequence of characters *)
LcdWriters == 1..MaxWriters
NoWriter == 0
LCD_COLS == 16

(* s = (s or ""); return s[:16].ljust(16) *)
fit_16(s) ==
    LET cut == SubSeq(s, 1, IF Len(s) < LCD_COLS THEN Len(s) ELSE LCD_COLS)
    IN  cut \o [ i \in 1..(LCD_COLS - Len(cut)) |-> " " ]

(* line pairs the program displays: the boot message, "Idle"/"Ready", *)
(* "Scan started" with the tail of an id, a line of exactly 16, a     *)
(* message longer than the display with no second line                *)
BootMessage ==
    << << "T","e","x","t","u","r","e"," ","s","c","a","n","n","e","r" >>,
       << "R","e","a","d","y",".",".","." >> >>
LcdCalls ==
    { << << "I","d","l","e" >>, << "R","e","a","d","y" >> >>,
      << << "S","c","a","n"," ","s","t","a","r","t","e","d" >>,
         << "1","a","2","b","3","c","4","d" >> >>,
      << [ i \in 1..LCD_COLS |-> "x" ], << >> >>,
      << [ i \in 1..(LCD_COLS + 4) |-> "y" ], << "D","o","n","e" >> >> }

(* what a call of lcd_write puts on the display *)
Shown(call) == << fit_16(call[1]), fit_16(call[2]) >>

NoCall == [ pc |-> "idle", l1 |-> << >>, l2 |-> << >> ]

(* self.lcd = JHD1802(); self.lcd_lock = threading.Lock();            *)
(* self.lcd_write("Texture scanner", "Ready...") in the constructor   *)
LcdInit ==
    /\ lcd = [ lock |-> NoWriter, cursor |-> 1, rows |-> Shown(BootMessage),
               failed |-> FALSE ]
    /\ lcd_call = [ w \in LcdWriters |-> NoCall ]

(* The display writes of the pipeline are not part of its steps below: *)
(* lcd_write shares nothing with the controller but its callers and is *)
(* modelled on its own.                                                *)
NoDisplay == UNCHANGED lcdVars

(* ---------------- the ingest call ---------------- *)

(* JSON values of a tactile field: no such key, null, or a number *)
Absent == "absent"
Null == "null"
DEFAULT_TACTILE == "0.0"
TactileValues == { Absent, Null, "0.0", "0.3" }
TactileKeys == { "roughness", "stiffness" }

(* what gemini_analysis carries under "tactile_data": nothing, a value  *)
(* that is not an object (json.loads does not check), or an object      *)
EmptyDict == [ kind |-> "dict", roughness |-> Absent, stiffness |-> Absent ]
Analyses ==
    { [ kind |-> k, roughness |-> Absent, stiffness |-> Absent ] :
        k \in { "absent", "null" } }
      \cup [ kind : {"dict"}, roughness : TactileValues, stiffness : TactileValues ]

(* dict.get(key, default): the default only when the key is missing *)
dict_get(d, key, default) == IF d[key] = Absent THEN default ELSE d[key]

(* tactile_data = gemini_analysis.get("tactile_data", {}) *)
tactile_data(analysis) ==
    IF analysis.kind = "absent" THEN EmptyDict ELSE analysis

(* tactile_data.get exists only on a dict *)
HasGet(td) == td.kind = "dict"

(* tactile_payload = {"roughness": tactile_data.get("roughness", 0.0), *)
(*                    "stiffness": tactile_data.get("stiffness", 0.0)} *)
tactile_payload(td) ==
    [ roughness |-> dict_get(td, "roughness", DEFAULT_TACTILE),
      stiffness |-> dict_get(td, "stiffness", DEFAULT_TACTILE) ]

(* what requests.post does: an answer with a status code, or an        *)
(* exception (RequestException for transport errors)                   *)
StatusCodes == { "200", "201", "404", "500" }
Outcomes == StatusCodes \cup { "RequestException", "Exception" }

(* ingest_to_hardware_api as a function: the value it returns; both    *)
(* except clauses return False, so no exception leaves it              *)
ingest_returns(requests_available, image_exists, outcome) ==
    IF ~requests_available THEN FALSE
    ELSE IF ~image_exists THEN FALSE
    ELSE IF outcome \in StatusCodes THEN outcome = "200"
    ELSE FALSE

NoPayload == [ roughness |-> Absent, stiffness |-> Absent ]
NoIngestCall ==
    [ analysis |-> EmptyDict, requests |-> FALSE, image |-> FALSE,
      outcome |-> "none", called |-> FALSE,
      payload |-> NoPayload, returned |-> FALSE ]

(* The pipeline steps below keep the outcome of the ingest step open; *)
(* the call with its inputs is modelled on its own.                   *)
NoIngest == UNCHANGED ingest_call

(* ---------------- the sensor service ---------------- *)

(* the thread of sensor_loop and the handlers of GET /temp *)
POLL == 0
Requests == 1..MaxRequests
SensorThreads == {POLL} \cup Requests

(* A reading is named by the number of the sensor read it comes from:   *)
(* temperature n and humidity n are the two values read number n        *)
(* returned, timestamp n is the time.time() taken by the update that    *)
(* stores read number n.  NoReading is None.                            *)
NoReading == 0
NoHolder == -1

(* latest_data = {"temperature": None, "humidity": None, "timestamp": None} *)
NoData == [ temperature |-> NoReading, humidity |-> NoReading,
            timestamp |-> NoReading ]

(* what a request got: nothing yet, a reading, or an HTTP error *)
SensorAnswer(kind, temp, humi, ts) ==
    [ kind |-> kind, temperature_c |-> temp, humidity_percent |-> humi,
      timestamp |-> ts ]
NoSensorAnswer == SensorAnswer("none", NoReading, NoReading, NoReading)
HttpError(code) == SensorAnswer(code, NoReading, NoReading, NoReading)

(* the locals of a thread: position, fresh, humi, temp, ts *)
SensorLocals(p, fresh) ==
    [ pc |-> p, fresh |-> fresh, humi |-> NoReading, temp |-> NoReading,
      ts |-> NoReading, answer |-> NoSensorAnswer ]

(* the module is imported and start_sensor_thread has started sensor_loop *)
SensorInit ==
    sensor = [ reads |-> 0,
               data_lock |-> NoHolder,
               latest_data |-> NoData,
               th |-> [ t \in SensorThreads |->
                          IF t = POLL THEN SensorLocals("read", FALSE)
                          ELSE SensorLocals("idle", FALSE) ] ]

NoSensor == UNCHANGED sensor

(* ---------------- the status record ---------------- *)
ScanStatus(state, scan_id, started_at, message, progress) ==
    [ state |-> state, scan_id |-> scan_id, started_at |-> started_at,
      message |-> message, progress |-> progress ]

InitialStatus == ScanStatus("IDLE", NoId, NoId, "", 0)

update_status(st, state, message, progress) ==
    [ st EXCEPT !.state = state, !.message = message, !.progress = progress ]

Init ==
    /\ status = InitialStatus
    /\ busy = FALSE
    /\ lockOwner = NoLock
    /\ nextId = 1
    /\ cpc = [c \in Callers |-> "idle"]
    /\ cres = [c \in Endpoints |-> NoResult]
    /\ cid = [c \in Callers |-> NoId]
    /\ pc = [s \in ScanIds |-> "none"]
    /\ label = [s \in ScanIds |-> << >>]
    /\ typed = [s \in ScanIds |-> << >>]
    /\ exc = [s \in ScanIds |-> ""]
    /\ last_id = [s \in ScanIds |-> NoId]
    /\ last_msg = [s \in ScanIds |-> ""]
    /\ idx = [s \in ScanIds |-> 0]
    /\ ring = "off"
    /\ led = FALSE
    /\ ae = TRUE
    /\ dirs = {}
    /\ files = [s \in ScanIds |-> {}]
    /\ docs = [s \in ScanIds |-> NoDocs]
    /\ captured_images = [s \in ScanIds |-> << >>]
    /\ audio_data = [s \in ScanIds |-> None]
    /\ faults = 0
    /\ failed = [s \in ScanIds |-> {}]
    /\ cleared = {}
    /\ accepted = {}
    /\ overtake = 0
    /\ LcdInit
    /\ ingest_call = NoIngestCall
    /\ SensorInit

(* A step of the environment may fail only while the fault budget lasts. *)
CanFail == faults < MaxFaults
Fault(s, step) ==
    /\ CanFail
    /\ faults' = faults + 1
    /\ failed' = [failed EXCEPT ![s] = @ \cup {step}]
NoFault == UNCHANGED << faults, failed >>
(* a failure that ends the thread: the record of its failed steps goes too *)
FaultEnd(s) ==
    /\ CanFail
    /\ faults' = faults + 1
    /\ failed' = [failed EXCEPT ![s] = {}]

(* callers that hold an accepted id and have not yet returned it *)
InCall == { c \in Callers : cpc[c] # "idle" }

(* ======================= start_scan ======================= *)

(* What the trigger does with the outcome of start_scan: scan_start answers *)
(* the id or a 409, _handle_button_event drops the id and swallows the      *)
(* RuntimeError ("except RuntimeError: pass").                              *)
(* The answer goes out with the step that produces it; the server keeps no   *)
(* copy, so every other step leaves no answer behind.                       *)
NoAnswer == cres' = [c \in Endpoints |-> NoResult]
Deliver(c, r) ==
    cres' = [d \in Endpoints |-> IF d = c /\ c # BUTTON THEN r ELSE NoResult]

(* start_scan without mutual exclusion: the check does not wait for the *)
(* lock, so a second caller can test the flag before the first sets it  *)
start_scan_check_nolock(c) ==
    /\ cpc[c] = "idle"
    /\ IF busy
       THEN /\ Deliver(c, BusyError)
            /\ UNCHANGED << cpc, lockOwner >>
       ELSE /\ nextId + Cardinality(InCall) <= MaxScans
            /\ lockOwner' = c
            /\ cpc' = [cpc EXCEPT ![c] = "create"]
            /\ NoAnswer
    /\ UNCHANGED << status, busy, nextId, cid, pc, localVars, fsVars,
                    ghostVars >>

(* start_scan that builds the new status record before it tests the flag *)
start_scan_check_record_first(c) ==
    /\ cpc[c] = "idle"
    /\ lockOwner = NoLock
    /\ IF busy
       THEN /\ status' = ScanStatus("ARMING", nextId, nextId, "Arming scan...", 5)
            /\ Deliver(c, BusyError)
            /\ UNCHANGED << cpc, lockOwner >>
       ELSE /\ nextId + Cardinality(InCall) <= MaxScans
            /\ lockOwner' = c
            /\ cpc' = [cpc EXCEPT ![c] = "create"]
            /\ NoAnswer
            /\ UNCHANGED status
    /\ UNCHANGED << busy, nextId, cid, pc, localVars, fsVars, ghostVars >>

(* "with self._lock: if self._busy.is_set(): raise RuntimeError(...)".     *)
(* The caller gets the lock only when it is free.  With the flag set the   *)
(* raise leaves the with-block at once (lock released, call over); with    *)
(* the flag clear the caller goes on, still holding the lock.              *)
start_scan_check(c) ==
    /\ cpc[c] = "idle"
    /\ lockOwner = NoLock
    /\ IF busy
       THEN /\ Deliver(c, BusyError)
            /\ UNCHANGED << cpc, lockOwner >>
       ELSE /\ nextId + Cardinality(InCall) <= MaxScans
            /\ lockOwner' = c
            /\ cpc' = [cpc EXCEPT ![c] = "create"]
            /\ NoAnswer
    /\ UNCHANGED << status, busy, nextId, cid, pc, localVars, fsVars,
                    ghostVars >>

(* The rest of the with-block: scan_id = ...; self.status = ScanStatus(    *)
(* state="ARMING", ...); self._busy.set(); the lock is released.  Nothing  *)
(* outside the lock reads the record, and no pipeline thread can clear the *)
(* flag between these statements (a clear flag at the check means every    *)
(* earlier thread is past its clear), so they form one step.               *)
start_scan_create(c) ==
    /\ cpc[c] = "create"
    /\ nextId \in ScanIds
    /\ cid' = [cid EXCEPT ![c] = nextId]
    /\ nextId' = nextId + 1
    /\ status' = ScanStatus("ARMING", nextId, nextId, "Arming scan...", 5)
    /\ busy' = TRUE
    /\ lockOwner' = NoLock
    /\ accepted' = accepted \cup {nextId}
    /\ cpc' = [cpc EXCEPT ![c] = "spawn"]
    /\ NoAnswer
    /\ UNCHANGED << pc, localVars, hwVars, fsVars, faults, failed, cleared >>

(* t = threading.Thread(target=self._run_scan, ...); t.start(); return id *)
start_scan_spawn(c) ==
    /\ cpc[c] = "spawn"
    /\ pc' = [pc EXCEPT ![cid[c]] = "ensure_dir"]
    /\ Deliver(c, Accepted(cid[c]))
    /\ cid' = [cid EXCEPT ![c] = NoId]
    /\ cpc' = [cpc EXCEPT ![c] = "idle"]
    /\ UNCHANGED << ctlVars, localVars, hwVars, fsVars, ghostVars >>

(* POST /scan/start: the handler calls controller.start_scan() *)
scan_start ==
    /\ start_scan_check(HTTP)
    /\ UNCHANGED hwVars

(* set_button_led(on): a failure of the LED call is logged and swallowed *)
set_button_led(on) ==
    \/ led' = on
    \/ UNCHANGED led

(* a handler that takes a double click for a click *)
handle_button_event_dblclick_starts(code) ==
    IF code = NOISE
    THEN UNCHANGED vars
    ELSE IF HasBit(code, CLICK) \/ HasBit(code, DBLCLICK)
    THEN start_scan_check(BUTTON) /\ UNCHANGED hwVars
    ELSE IF HasBit(code, LONGPRESS)
    THEN /\ set_button_led(FALSE)
         /\ NoAnswer
         /\ UNCHANGED << ctlVars, callerVars, pc, localVars, ring, ae, fsVars,
                         ghostVars >>
    ELSE UNCHANGED vars

(* The button library delivers an event to _handle_button_event:          *)
(* NOISE returns, a code with the CLICK bit calls start_scan, otherwise a  *)
(* code with the LONGPRESS bit switches the LED off.                       *)
handle_button_event(code) ==
    IF code = NOISE
    THEN UNCHANGED vars
    ELSE IF HasBit(code, CLICK)
    THEN start_scan_check(BUTTON) /\ UNCHANGED hwVars
    ELSE IF HasBit(code, LONGPRESS)
    THEN /\ set_button_led(FALSE)
         /\ NoAnswer
         /\ UNCHANGED << ctlVars, callerVars, pc, localVars, ring, ae, fsVars,
                         ghostVars >>
    ELSE UNCHANGED vars

(* ======================= _run_scan ======================= *)

Goto(s, p) == pc' = [pc EXCEPT ![s] = p]

(* an exception raised inside the try-block reaches "except Exception as e" *)
Raise(s, step, text) ==
    /\ Fault(s, step)
    /\ exc' = [exc EXCEPT ![s] = text]
    /\ Goto(s, "except")

AddFile(s, f) == files' = [files EXCEPT ![s] = @ \cup {f}]

(* the thread function returns or dies: its locals are gone *)
ThreadEnd(s) ==
    /\ Goto(s, "dead")
    /\ label' = [label EXCEPT ![s] = << >>]
    /\ typed' = [typed EXCEPT ![s] = << >>]
    /\ exc' = [exc EXCEPT ![s] = ""]
    /\ last_id' = [last_id EXCEPT ![s] = NoId]
    /\ last_msg' = [last_msg EXCEPT ![s] = ""]
    /\ idx' = [idx EXCEPT ![s] = 0]
    /\ captured_images' = [captured_images EXCEPT ![s] = << >>]
    /\ audio_data' = [audio_data EXCEPT ![s] = None]

(* ensure_dir(scan_dir); lcd_step("Scan started", ...): both stand before  *)
(* the try-block, so an OSError of os.makedirs ends the thread at once.    *)
run_scan_ensure_dir(s) ==
    /\ pc[s] = "ensure_dir"
    /\ \/ /\ dirs' = dirs \cup {s}
          /\ Goto(s, "led_on")
          /\ NoFault
          /\ UNCHANGED << localVars >>
       \/ /\ FaultEnd(s)
          /\ ThreadEnd(s)
          /\ UNCHANGED dirs
    /\ UNCHANGED << ctlVars, callerVars, hwVars, files, cleared,
                    accepted, docs >>

(* self._set_button_led(True) *)
run_scan_led_on(s) ==
    /\ pc[s] = "led_on"
    /\ \/ led' = TRUE /\ NoFault
       \/ UNCHANGED led /\ Fault(s, "led_on")
    /\ Goto(s, "label_status")
    /\ UNCHANGED << ctlVars, callerVars, localVars, ring, ae, fsVars,
                    cleared, accepted >>

(* an _update_status that does not release self._lock when it returns *)
PIPELINE == "pipeline"
StatusStep_keeps_lock(s, from, to, state, message, progress) ==
    /\ pc[s] = from
    /\ lockOwner = NoLock
    /\ status' = update_status(status, state, message, progress)
    /\ lockOwner' = PIPELINE
    /\ Goto(s, to)
    /\ UNCHANGED << busy, nextId, callerVars, hwVars, fsVars, ghostVars >>

(* an _update_status that lets go of the lock after its first assignment *)
StatusStep_state_only(s, from, to, state, message, progress) ==
    /\ pc[s] = from
    /\ lockOwner = NoLock
    /\ status' = [status EXCEPT !.state = state]
    /\ Goto(s, to)
    /\ UNCHANGED << busy, lockOwner, nextId, callerVars, hwVars, fsVars,
                    ghostVars >>

(* a call of _update_status: the three fields change under self._lock, *)
(* which is taken and released within the call                          *)
StatusStep(s, from, to, state, message, progress) ==
    /\ pc[s] = from
    /\ lockOwner = NoLock
    /\ status' = update_status(status, state, message, progress)
    /\ Goto(s, to)
    /\ UNCHANGED << busy, lockOwner, nextId, callerVars, hwVars, fsVars,
                    ghostVars >>

(* _prompt_for_label: status LABEL *)
prompt_for_label_status(s) ==
    /\ StatusStep(s, "label_status", "input", "LABEL",
                  "Waiting for terminal label...", 5)
    /\ UNCHANGED localVars

(* label = input(...).strip(); if not label: label = "unlabeled" *)
prompt_for_label_input(s) ==
    /\ pc[s] = "input"
    /\ \/ /\ \E raw \in LabelInputs :
                /\ typed' = [typed EXCEPT ![s] = raw]
                /\ label' = [label EXCEPT ![s] =
                            IF strip(raw) = << >> THEN UNLABELED ELSE strip(raw)]
          /\ Goto(s, "label_write")
          /\ NoFault
          /\ UNCHANGED exc
       \/ /\ Raise(s, "input", "EOF when reading a line")
          /\ UNCHANGED << label, typed >>
    /\ UNCHANGED << ctlVars, callerVars, last_id, last_msg, idx,
                    hwVars, fsVars, cleared, accepted, captured_images,
                    audio_data >>

WriteDoc(s, key, content) ==
    docs' = [docs EXCEPT ![s] = [@ EXCEPT ![key] = content]]

(* a prompt that returns the label without saving it *)
prompt_for_label_write_skipped(s) ==
    /\ pc[s] = "label_write"
    /\ Goto(s, "position_status")
    /\ NoFault
    /\ UNCHANGED << ctlVars, callerVars, label, typed, exc, last_id, last_msg,
                    idx, hwVars, fsVars, cleared, accepted, captured_images,
                    audio_data >>

(* with open(label_path, "w") as f: f.write(f"{label}\n") *)
prompt_for_label_write(s) ==
    /\ pc[s] = "label_write"
    /\ \/ /\ AddFile(s, METADATA_LABEL_TXT)
          /\ WriteDoc(s, "label_txt", [ text |-> Append(label[s], "\n") ])
          /\ Goto(s, "position_status")
          /\ NoFault
          /\ UNCHANGED exc
       \/ /\ Raise(s, "label_write", "cannot write metadata_label.txt")
          /\ UNCHANGED << files, docs >>
    /\ UNCHANGED << ctlVars, callerVars, label, typed, last_id, last_msg, idx,
                    hwVars, dirs, cleared, accepted, captured_images,
                    audio_data >>

(* _wait_for_positioning: status POSITION, then the countdown loop *)
wait_for_positioning_status(s) ==
    /\ StatusStep(s, "position_status", "position_tick", "POSITION",
                  "Position item (3s)...", 10)
    /\ idx' = [idx EXCEPT ![s] = POSITION_ITEM_COUNTDOWN]
    /\ UNCHANGED << label, typed, exc, last_id, last_msg, captured_images,
                    audio_data >>

(* one pass of "for i in range(POSITION_ITEM_COUNTDOWN, 0, -1)" *)
wait_for_positioning_tick(s) ==
    /\ pc[s] = "position_tick"
    /\ idx' = [idx EXCEPT ![s] = @ - 1]
    /\ Goto(s, IF idx[s] = 1 THEN "images_status" ELSE "position_tick")
    /\ UNCHANGED << ctlVars, callerVars, label, typed, exc, last_id, last_msg,
                    hwVars, fsVars, ghostVars, captured_images,
                    audio_data >>

(* _capture_photos: status IMAGES *)
capture_photos_status(s) ==
    /\ StatusStep(s, "images_status", "images_setup", "IMAGES",
                  "Capturing images under 5 lights...", 25)
    /\ UNCHANGED localVars

(* self.buzzer.triple(); self.cam.set_controls({"AeEnable": False}) *)
capture_photos_setup(s) ==
    /\ pc[s] = "images_setup"
    /\ \/ /\ ae' = FALSE
          /\ idx' = [idx EXCEPT ![s] = 1]
          /\ Goto(s, "ring_set")
          /\ NoFault
          /\ UNCHANGED exc
       \/ /\ Raise(s, "images_setup", "camera set_controls failed")
          /\ UNCHANGED << ae, idx >>
    /\ UNCHANGED << ctlVars, callerVars, label, typed, last_id, last_msg,
                    ring, led, fsVars, cleared, accepted,
                    captured_images, audio_data >>

(* a loop that lights every entry with the first colour of the schedule *)
capture_photos_ring_set_first(s) ==
    /\ pc[s] = "ring_set"
    /\ \/ /\ ring' = LIGHTING_SCHEDULE[1]
          /\ Goto(s, "capture")
          /\ NoFault
          /\ UNCHANGED exc
       \/ /\ Raise(s, "ring_set", "ring light write failed")
          /\ UNCHANGED ring
    /\ UNCHANGED << ctlVars, callerVars, label, typed, last_id, last_msg, idx,
                    led, ae, fsVars, cleared, accepted,
                    captured_images, audio_data >>

(* self._ring_set(rgb, ...); time.sleep(LED_COLOR_SETTLE_TIME) *)
capture_photos_ring_set(s) ==
    /\ pc[s] = "ring_set"
    /\ \/ /\ ring' = LIGHTING_SCHEDULE[idx[s]]
          /\ Goto(s, "capture")
          /\ NoFault
          /\ UNCHANGED exc
       \/ /\ Raise(s, "ring_set", "ring light write failed")
          /\ UNCHANGED ring
    /\ UNCHANGED << ctlVars, callerVars, label, typed, last_id, last_msg, idx,
                    led, ae, fsVars, cleared, accepted,
                    captured_images, audio_data >>

(* a loop that names its images from the end of the schedule *)
capture_locked_reversed(s) ==
    /\ pc[s] = "capture"
    /\ \/ /\ AddFile(s, get_photo_filename(
                    LIGHTING_SCHEDULE[Len(LIGHTING_SCHEDULE) + 1 - idx[s]]))
          /\ ae' = FALSE
          /\ Goto(s, "photo_meta")
          /\ NoFault
          /\ UNCHANGED exc
       \/ /\ Raise(s, "capture", "camera capture failed")
          /\ ae' \in BOOLEAN
          /\ UNCHANGED files
    /\ UNCHANGED << ctlVars, callerVars, label, typed, last_id, last_msg, idx,
                    ring, led, dirs, cleared, accepted,
                    captured_images, audio_data, docs >>

(* md, lock = capture_locked(self.cam, img_path): lets AE/AWB settle     *)
(* (AeEnable True), pins the controls (AeEnable False among them) and    *)
(* writes the image; a failure may strike before or after either.        *)
capture_locked(s) ==
    /\ pc[s] = "capture"
    /\ \/ /\ AddFile(s, get_photo_filename(LIGHTING_SCHEDULE[idx[s]]))
          /\ ae' = FALSE
          /\ Goto(s, "photo_meta")
          /\ NoFault
          /\ UNCHANGED exc
       \/ /\ Raise(s, "capture", "camera capture failed")
          /\ ae' \in BOOLEAN
          /\ UNCHANGED files
    /\ UNCHANGED << ctlVars, callerVars, label, typed, last_id, last_msg, idx,
                    ring, led, dirs, cleared, accepted,
                    captured_images, audio_data, docs >>

(* the metadata JSON is written inside its own try/except (warning only); *)
(* then captured_images[name] = filename and the inter-capture delay.     *)
capture_photos_meta(s) ==
    /\ pc[s] = "photo_meta"
    /\ \/ /\ AddFile(s, get_photo_meta_filename(LIGHTING_SCHEDULE[idx[s]]))
          /\ NoFault
       \/ /\ Fault(s, "photo_meta")
          /\ UNCHANGED files
    /\ captured_images' = [captured_images EXCEPT ![s] =
            Append(@, << LIGHTING_SCHEDULE[idx[s]],
                         get_photo_filename(LIGHTING_SCHEDULE[idx[s]]) >>)]
    /\ idx' = [idx EXCEPT ![s] = @ + 1]
    /\ Goto(s, IF idx[s] = Len(LIGHTING_SCHEDULE) THEN "ae_restore" ELSE "ring_set")
    /\ UNCHANGED << ctlVars, callerVars, label, typed, exc, last_id, last_msg,
                    hwVars, dirs, cleared, accepted, audio_data, docs >>

(* self.cam.set_controls({"AeEnable": True}) after the loop *)
capture_photos_restore(s) ==
    /\ pc[s] = "ae_restore"
    /\ \/ /\ ae' = TRUE
          /\ Goto(s, "texture_prep")
          /\ NoFault
          /\ UNCHANGED exc
       \/ /\ Raise(s, "ae_restore", "camera set_controls failed")
          /\ UNCHANGED ae
    /\ UNCHANGED << ctlVars, callerVars, label, typed, last_id, last_msg, idx,
                    ring, led, fsVars, cleared, accepted,
                    captured_images, audio_data >>

(* _record_texture_audio: buzzer.triple(); self._ring_off(); ...triple() *)
record_texture_prep(s) ==
    /\ pc[s] = "texture_prep"
    /\ \/ /\ ring' = "off"
          /\ idx' = [idx EXCEPT ![s] = TEXTURE_COUNTDOWN]
          /\ Goto(s, "texture_tick")
          /\ NoFault
          /\ UNCHANGED exc
       \/ /\ Raise(s, "texture_prep", "ring light write failed")
          /\ UNCHANGED << ring, idx >>
    /\ UNCHANGED << ctlVars, callerVars, label, typed, last_id, last_msg, led,
                    ae, fsVars, cleared, accepted, captured_images,
                    audio_data >>

(* one pass of "for i in range(TEXTURE_COUNTDOWN, 0, -1)" *)
record_texture_tick(s) ==
    /\ pc[s] = "texture_tick"
    /\ idx' = [idx EXCEPT ![s] = @ - 1]
    /\ Goto(s, IF idx[s] = 1 THEN "texture_status" ELSE "texture_tick")
    /\ UNCHANGED << ctlVars, callerVars, label, typed, exc, last_id, last_msg,
                    hwVars, fsVars, ghostVars, captured_images,
                    audio_data >>

(* buzzer.long(); status TEXTURE *)
record_texture_status(s) ==
    /\ StatusStep(s, "texture_status", "record", "TEXTURE",
                  "Recording texture audio (3s)...", 70)
    /\ UNCHANGED localVars

(* a mandatory external step that writes one file: run_cmd raises on a *)
(* nonzero exit status                                                 *)
CmdStep(s, from, to, out, text) ==
    /\ pc[s] = from
    /\ \/ /\ files' = [files EXCEPT ![s] = @ \cup out]
          /\ Goto(s, to)
          /\ NoFault
          /\ UNCHANGED exc
       \/ /\ Raise(s, from, text)
          /\ UNCHANGED files
    /\ UNCHANGED << ctlVars, callerVars, label, typed, last_id, last_msg, idx,
                    hwVars, dirs, cleared, accepted, captured_images,
                    audio_data, docs >>

(* record_audio_wav(audio_raw, ...); buzzer.long() *)
record_audio_wav(s) ==
    CmdStep(s, "record", "processing_status", {AUDIO_TEXTURE_RAW},
            "Command failed rc=1: arecord")

(* _process_audio: status PROCESSING *)
process_audio_status(s) ==
    /\ StatusStep(s, "processing_status", "sox_dc", "PROCESSING",
                  "Post-processing audio...", 85)
    /\ UNCHANGED localVars

sox_remove_dc(s) ==
    CmdStep(s, "sox_dc", "stat_raw", {AUDIO_TEXTURE_NODC},
            "Command failed rc=1: sox gain highpass")

sox_stat_raw(s) ==
    CmdStep(s, "stat_raw", "stat_nodc", {}, "Command failed rc=1: sox stat")

sox_stat_nodc(s) ==
    CmdStep(s, "stat_nodc", "sox_norm", {}, "Command failed rc=1: sox stat")

sox_normalize(s) ==
    CmdStep(s, "sox_norm", "stat_norm", {AUDIO_TEXTURE_NORM},
            "Command failed rc=1: sox norm")

sox_stat_norm(s) ==
    CmdStep(s, "stat_norm", "spectrogram", {}, "Command failed rc=1: sox stat")

(* audio_data = {"raw_wav": ..., "spectrogram_png": name if spec_ok else *)
(* None, ...}; the logs and statistics of the tools are left out        *)
AudioData(spec_ok) ==
    [ raw_wav |-> AUDIO_TEXTURE_RAW,
      nodc_wav |-> AUDIO_TEXTURE_NODC,
      norm_wav |-> AUDIO_TEXTURE_NORM,
      spectrogram_png |-> IF spec_ok THEN TEXTURE_SPECTROGRAM ELSE None ]

(* a spectrogram step without its try/except: the failure is fatal *)
sox_spectrogram_fatal(s) ==
    /\ pc[s] = "spectrogram"
    /\ \/ /\ AddFile(s, TEXTURE_SPECTROGRAM)
          /\ NoFault
          /\ audio_data' = [audio_data EXCEPT ![s] = AudioData(TRUE)]
          /\ Goto(s, "save")
          /\ UNCHANGED exc
       \/ /\ Raise(s, "spectrogram", "Command failed rc=1: sox spectrogram")
          /\ UNCHANGED << files, audio_data >>
    /\ UNCHANGED << ctlVars, callerVars, label, typed, last_id, last_msg, idx,
                    captured_images, hwVars, dirs, cleared, accepted, docs >>

(* the spectrogram render sits in its own try/except: spec_ok = False; *)
(* then the audio record is built                                      *)
sox_spectrogram(s) ==
    /\ pc[s] = "spectrogram"
    /\ \/ /\ AddFile(s, TEXTURE_SPECTROGRAM)
          /\ NoFault
          /\ audio_data' = [audio_data EXCEPT ![s] = AudioData(TRUE)]
       \/ /\ Fault(s, "spectrogram")
          /\ UNCHANGED files
          /\ audio_data' = [audio_data EXCEPT ![s] = AudioData(FALSE)]
    /\ Goto(s, "save")
    /\ UNCHANGED << ctlVars, callerVars, label, typed, exc, last_id, last_msg, idx,
                    captured_images, hwVars, dirs, cleared, accepted, docs >>

(* with open(path, "w") as f: json.dump(document, f): on success the    *)
(* file holds the document; a failure strikes either before the file    *)
(* is opened (nothing changes) or after open() has created or emptied   *)
(* it (an incomplete file is left behind)                               *)
Truncated == [ truncated |-> TRUE ]
DocStep(s, from, to, name, key, content, text) ==
    /\ pc[s] = from
    /\ \/ /\ AddFile(s, name)
          /\ WriteDoc(s, key, content)
          /\ Goto(s, to)
          /\ NoFault
          /\ UNCHANGED exc
       \/ /\ Raise(s, from, text)
          /\ \/ UNCHANGED << files, docs >>
             \/ AddFile(s, name) /\ WriteDoc(s, key, Truncated)
    /\ UNCHANGED << ctlVars, callerVars, label, typed, last_id, last_msg, idx,
                    hwVars, dirs, cleared, accepted, captured_images,
                    audio_data >>

(* a combined document that records what was typed, unprocessed *)
Results_typed(s) ==
    [ scan_id |-> s, label |-> typed[s], audio |-> audio_data[s],
      images |-> captured_images[s] ]

(* results = {"scan_id": scan_id, "label": label, "audio": audio_data, *)
(* "images": captured_images}                                          *)
Results(s) ==
    [ scan_id |-> s, label |-> label[s], audio |-> audio_data[s],
      images |-> captured_images[s] ]

(* _save_scan_results: json.dump(results) into texture_scan.json *)
save_scan_results(s) ==
    DocStep(s, "save", "analyzing_status", TEXTURE_SCAN_JSON, "texture_scan",
            Results(s), "cannot write texture_scan.json")

(* _run_gemini_analysis: status ANALYZING *)
run_gemini_analysis_status(s) ==
    /\ StatusStep(s, "analyzing_status", "analyze", "ANALYZING",
                  "Gemini AI analysis...", 90)
    /\ UNCHANGED localVars

(* a pipeline that goes on to the final results whatever the analysis *)
(* returned                                                           *)
analyze_with_gemini_unchecked(s) ==
    /\ pc[s] = "analyze"
    /\ \/ Goto(s, "final_results") /\ NoFault
       \/ Goto(s, "final_results") /\ Fault(s, "analyze")
    /\ UNCHANGED << ctlVars, callerVars, localVars, hwVars, fsVars, cleared,
                    accepted >>

(* gemini_analysis = analyze_with_gemini(...): a dict, or None on any    *)
(* failure (the function catches every exception itself)                 *)
analyze_with_gemini(s) ==
    /\ pc[s] = "analyze"
    /\ \/ Goto(s, "final_results") /\ NoFault
       \/ Goto(s, "done_status") /\ Fault(s, "analyze")
    /\ UNCHANGED << ctlVars, callerVars, localVars, hwVars, fsVars, cleared,
                    accepted >>

(* final_results = {"scan_id": results["scan_id"], "label": label,      *)
(* "material_analysis": gemini_analysis}; the analysis is kept abstract *)
FinalResults(s) ==
    [ scan_id |-> s, label |-> label[s], material_analysis |-> "gemini_analysis" ]

(* final_results["generated_product_image"] = GENERATED_PRODUCT_IMAGE *)
FinalResultsWithImage(s) ==
    [ scan_id |-> s, label |-> label[s], material_analysis |-> "gemini_analysis",
      generated_product_image |-> GENERATED_PRODUCT_IMAGE ]

(* json.dump(final_results) into results_final.json (no try/except) *)
run_gemini_analysis_write(s) ==
    DocStep(s, "final_results", "generating_status", RESULTS_FINAL_JSON,
            "results_final", FinalResults(s), "cannot write results_final.json")

run_gemini_analysis_generating(s) ==
    /\ StatusStep(s, "generating_status", "generate", "GENERATING",
                  "Creating product image...", 95)
    /\ UNCHANGED localVars

(* generate_product_image(...): the image path, or None on any failure *)
generate_product_image(s) ==
    /\ pc[s] = "generate"
    /\ \/ /\ AddFile(s, GENERATED_PRODUCT_IMAGE)
          /\ Goto(s, "final_results_image")
          /\ NoFault
       \/ /\ Goto(s, "done_status")
          /\ Fault(s, "generate")
          /\ UNCHANGED files
    /\ UNCHANGED << ctlVars, callerVars, localVars, hwVars, dirs,
                    cleared, accepted, docs >>

(* final_results["generated_product_image"] = ...; the file is rewritten *)
run_gemini_analysis_rewrite(s) ==
    DocStep(s, "final_results_image", "ingesting_status", RESULTS_FINAL_JSON,
            "results_final", FinalResultsWithImage(s),
            "cannot write results_final.json")

run_gemini_analysis_ingesting(s) ==
    /\ StatusStep(s, "ingesting_status", "ingest", "INGESTING",
                  "Sending to API...", 98)
    /\ UNCHANGED localVars

(* tactile_data = gemini_analysis.get("tactile_data", {}) and its two    *)
(* .get calls raise when the analysis carries a non-dict there; then     *)
(* ingest_to_hardware_api(...) answers True or False                     *)
ingest_to_hardware_api(s) ==
    /\ pc[s] = "ingest"
    /\ \/ Goto(s, "done_status") /\ NoFault /\ UNCHANGED exc
       \/ Goto(s, "done_status") /\ Fault(s, "ingest") /\ UNCHANGED exc
       \/ Raise(s, "tactile_data", "'NoneType' object has no attribute 'get'")
    /\ UNCHANGED << ctlVars, callerVars, label, typed, last_id, last_msg, idx,
                    hwVars, fsVars, cleared, accepted, captured_images,
                    audio_data >>

(* self._update_status("DONE", "Scan complete", 1.0); lcd_step("Done",   *)
(* label[:16]) is the last use of the label and of the other locals      *)
run_scan_done(s) ==
    /\ StatusStep(s, "done_status", "cleanup_ring", "DONE", "Scan complete", 100)
    /\ label' = [label EXCEPT ![s] = << >>]
    /\ typed' = [typed EXCEPT ![s] = << >>]
    /\ captured_images' = [captured_images EXCEPT ![s] = << >>]
    /\ audio_data' = [audio_data EXCEPT ![s] = None]
    /\ UNCHANGED << exc, last_id, last_msg, idx >>

(* an except-handler that reports a fixed text instead of str(e) *)
run_scan_except_fixed_text(s) ==
    /\ StatusStep(s, "except", "cleanup_ring", "ERROR", "Scan failed", 100)
    /\ label' = [label EXCEPT ![s] = << >>]
    /\ typed' = [typed EXCEPT ![s] = << >>]
    /\ idx' = [idx EXCEPT ![s] = 0]
    /\ captured_images' = [captured_images EXCEPT ![s] = << >>]
    /\ audio_data' = [audio_data EXCEPT ![s] = None]
    /\ UNCHANGED << exc, last_id, last_msg >>

(* an except clause that empties the directory of the failed session *)
run_scan_except_purges(s) ==
    /\ pc[s] = "except"
    /\ lockOwner = NoLock
    /\ status' = update_status(status, "ERROR", exc[s], 100)
    /\ Goto(s, "cleanup_ring")
    /\ files' = [files EXCEPT ![s] = {}]
    /\ docs' = [docs EXCEPT ![s] = NoDocs]
    /\ label' = [label EXCEPT ![s] = << >>]
    /\ typed' = [typed EXCEPT ![s] = << >>]
    /\ idx' = [idx EXCEPT ![s] = 0]
    /\ captured_images' = [captured_images EXCEPT ![s] = << >>]
    /\ audio_data' = [audio_data EXCEPT ![s] = None]
    /\ UNCHANGED << busy, lockOwner, nextId, callerVars, hwVars, dirs,
                    ghostVars, exc, last_id, last_msg >>

(* except Exception as e: self._update_status("ERROR", str(e), 1.0);    *)
(* the locals of the try-block are not used again                       *)
run_scan_except(s) ==
    /\ StatusStep(s, "except", "cleanup_ring", "ERROR", exc[s], 100)
    /\ label' = [label EXCEPT ![s] = << >>]
    /\ typed' = [typed EXCEPT ![s] = << >>]
    /\ idx' = [idx EXCEPT ![s] = 0]
    /\ captured_images' = [captured_images EXCEPT ![s] = << >>]
    /\ audio_data' = [audio_data EXCEPT ![s] = None]
    /\ UNCHANGED << exc, last_id, last_msg >>

(* ---------------- the finally block ---------------- *)

(* self._ring_off(): not guarded, so an exception of the ring write     *)
(* leaves the finally block and ends the thread                        *)
cleanup_ring_off(s) ==
    /\ pc[s] = "cleanup_ring"
    /\ \/ /\ ring' = "off"
          /\ Goto(s, "cleanup_led")
          /\ NoFault
          /\ UNCHANGED localVars
       \/ /\ FaultEnd(s)
          /\ ThreadEnd(s)
          /\ UNCHANGED ring
    /\ UNCHANGED << ctlVars, callerVars, led, ae, fsVars, cleared, accepted >>

(* a finally block that toggles the button LED *)
cleanup_led_off_toggle(s) ==
    /\ pc[s] = "cleanup_led"
    /\ led' = ~led
    /\ NoFault
    /\ Goto(s, "busy_clear")
    /\ UNCHANGED << ctlVars, callerVars, localVars, ring, ae, fsVars,
                    cleared, accepted >>

(* a finally block that leaves the button LED as it is *)
cleanup_led_off_skipped(s) ==
    /\ pc[s] = "cleanup_led"
    /\ UNCHANGED led
    /\ NoFault
    /\ Goto(s, "busy_clear")
    /\ UNCHANGED << ctlVars, callerVars, localVars, ring, ae, fsVars,
                    cleared, accepted >>

(* self._set_button_led(False): a failure of the LED write is caught *)
(* inside _set_button_led and logged                                 *)
cleanup_led_off(s) ==
    /\ pc[s] = "cleanup_led"
    /\ \/ led' = FALSE /\ NoFault
       \/ UNCHANGED led /\ Fault(s, "cleanup_led")
    /\ Goto(s, "busy_clear")
    /\ UNCHANGED << ctlVars, callerVars, localVars, ring, ae, fsVars,
                    cleared, accepted >>

(* self._busy.clear() *)
cleanup_busy_clear(s) ==
    /\ pc[s] = "busy_clear"
    /\ busy' = FALSE
    /\ cleared' = cleared \cup {s}
    /\ Goto(s, "read_last")
    /\ UNCHANGED << status, lockOwner, nextId, callerVars, localVars, hwVars,
                    fsVars, faults, failed, accepted >>

(* with self._lock: last_id = self.status.scan_id; last_msg = ...message *)
cleanup_read_last(s) ==
    /\ pc[s] = "read_last"
    /\ lockOwner = NoLock
    /\ last_id' = [last_id EXCEPT ![s] = status.scan_id]
    /\ last_msg' = [last_msg EXCEPT ![s] = status.message]
    /\ Goto(s, "set_idle")
    /\ UNCHANGED << ctlVars, callerVars, label, typed, exc, idx, hwVars,
                    fsVars, ghostVars, captured_images, audio_data >>

(* time.sleep(0.2); lcd_step("Idle", "Ready"); with self._lock: state =  *)
(* "IDLE", scan_id = last_id, message = last_msg, progress = 0.0; return *)
cleanup_set_idle(s) ==
    /\ pc[s] = "set_idle"
    /\ lockOwner = NoLock
    /\ status' = [status EXCEPT !.state = "IDLE", !.scan_id = last_id[s],
                                !.message = last_msg[s], !.progress = 0]
    /\ ThreadEnd(s)
    /\ failed' = [failed EXCEPT ![s] = {}]
    /\ UNCHANGED << busy, lockOwner, nextId, callerVars, hwVars, fsVars,
                    faults, cleared, accepted >>

(* ======================= get_status ======================= *)

(* with self._lock: return asdict(self.status) - a copy of the record, *)
(* taken while nobody else holds the lock                              *)
get_status ==
    /\ lockOwner = NoLock
    /\ Deliver(STATUS, status)

(* GET /scan/status *)
scan_status ==
    /\ get_status
    /\ UNCHANGED << ctlVars, callerVars, pc, localVars, hwVars, fsVars,
                    ghostVars, overtake, lcdVars, ingest_call, sensor >>

(* ======================= label_scan ======================= *)

(* the body of a label request: payload.model_dump() *)
LabelPayloads == { [ label |-> << "x" >>, notes |-> None, tags |-> None ] }

(* a label_scan that does not test for the directory but creates it *)
label_scan_makedirs(id, payload) ==
    /\ dirs' = dirs \cup {id}
    /\ AddFile(id, METADATA_LABEL_JSON)
    /\ WriteDoc(id, "label_json", payload)
    /\ Deliver(LABEL, Labeled(id))
    /\ UNCHANGED faults

(* a label_scan that also replaces the label given at the prompt *)
label_scan_rewrites_txt(id, payload) ==
    IF id \notin dirs
    THEN /\ Deliver(LABEL, NotFound(id))
         /\ UNCHANGED << fsVars, faults >>
    ELSE /\ files' = [files EXCEPT ![id] =
                        @ \cup {METADATA_LABEL_JSON, METADATA_LABEL_TXT}]
         /\ docs' = [docs EXCEPT ![id] =
                        [@ EXCEPT !.label_json = payload,
                                  !.label_txt = [ text |-> Append(payload.label, "\n") ]]]
         /\ Deliver(LABEL, Labeled(id))
         /\ UNCHANGED << dirs, faults >>

(* label_scan(scan_id, payload): FileNotFoundError unless the directory *)
(* of scan_id exists; else metadata_label.json is opened for writing    *)
(* and the payload is dumped into it.  A failure of the write leaves    *)
(* the file as it was or, when open() has succeeded, incomplete.        *)
label_scan(id, payload) ==
    IF id \notin dirs
    THEN /\ Deliver(LABEL, NotFound(id))
         /\ UNCHANGED << fsVars, faults >>
    ELSE \/ /\ AddFile(id, METADATA_LABEL_JSON)
            /\ WriteDoc(id, "label_json", payload)
            /\ Deliver(LABEL, Labeled(id))
            /\ UNCHANGED << dirs, faults >>
         \/ /\ CanFail
            /\ faults' = faults + 1
            /\ Deliver(LABEL, ServerError(id))
            /\ UNCHANGED dirs
            /\ \/ UNCHANGED << files, docs >>
               \/ AddFile(id, METADATA_LABEL_JSON)
                    /\ WriteDoc(id, "label_json", Truncated)

(* POST /scan/{scan_id}/label *)
scan_label(id, payload) ==
    /\ label_scan(id, payload)
    /\ UNCHANGED << ctlVars, callerVars, pc, localVars, hwVars, failed,
                    cleared, accepted, overtake, lcdVars,
                    ingest_call, sensor >>

(* ======================= lcd_write ======================= *)

(* a step of lcd_write touches nothing but the display *)
LcdOnly ==
    /\ NoAnswer
    /\ UNCHANGED << ctlVars, callerVars, pc, localVars, hwVars, fsVars,
                    ghostVars, overtake, ingest_call, sensor >>

LcdGoto(w, p) == lcd_call' = [lcd_call EXCEPT ![w].pc = p]
LcdReturn(w) == lcd_call' = [lcd_call EXCEPT ![w] = NoCall]

(* l1, l2 = _fit_16(line1), _fit_16(line2) *)
lcd_write_fit(w, call) ==
    /\ lcd_call[w].pc = "idle"
    /\ lcd_call' = [lcd_call EXCEPT ![w] =
                      [ pc |-> "acquire", l1 |-> fit_16(call[1]),
                        l2 |-> fit_16(call[2]) ]]
    /\ UNCHANGED lcd
    /\ LcdOnly

(* a lcd_write that does not take self.lcd_lock *)
lcd_write_acquire_nolock(w) ==
    /\ lcd_call[w].pc = "acquire"
    /\ LcdGoto(w, "cursor0")
    /\ UNCHANGED lcd
    /\ LcdOnly

(* with self.lcd_lock: *)
lcd_write_acquire(w) ==
    /\ lcd_call[w].pc = "acquire"
    /\ lcd.lock = NoWriter
    /\ lcd' = [lcd EXCEPT !.lock = w]
    /\ LcdGoto(w, "cursor0")
    /\ LcdOnly

(* a lcd_write whose lock is taken without "with" and stays taken when *)
(* an operation of the display raises                                  *)
LcdRaise_keeps_lock(w) ==
    /\ lcd' = [lcd EXCEPT !.failed = TRUE]
    /\ LcdReturn(w)

(* an operation of the display raises: the with block releases the lock *)
(* and "except Exception" logs a warning; lcd_write returns             *)
LcdRaise(w) ==
    /\ lcd' = [lcd EXCEPT !.lock = IF @ = w THEN NoWriter ELSE @,
                          !.failed = TRUE]
    /\ LcdReturn(w)

(* self.lcd.setCursor(row, 0) *)
LcdSetCursor(w, from, to, row) ==
    /\ lcd_call[w].pc = from
    /\ \/ lcd' = [lcd EXCEPT !.cursor = row] /\ LcdGoto(w, to)
       \/ LcdRaise(w)
    /\ LcdOnly

lcd_write_cursor0(w) == LcdSetCursor(w, "cursor0", "write1", 1)

(* self.lcd.write(l1): the text goes to the row of the cursor *)
lcd_write_line1(w) ==
    /\ lcd_call[w].pc = "write1"
    /\ \/ /\ lcd' = [lcd EXCEPT !.rows[lcd.cursor] = lcd_call[w].l1]
          /\ LcdGoto(w, "cursor1")
       \/ LcdRaise(w)
    /\ LcdOnly

lcd_write_cursor1(w) == LcdSetCursor(w, "cursor1", "write2", 2)

(* self.lcd.write(l2); the with block ends and lcd_write returns *)
lcd_write_line2(w) ==
    /\ lcd_call[w].pc = "write2"
    /\ \/ /\ lcd' = [lcd EXCEPT !.rows[lcd.cursor] = lcd_call[w].l2,
                                 !.lock = IF @ = w THEN NoWriter ELSE @,
                                 !.failed = FALSE]
          /\ LcdReturn(w)
       \/ LcdRaise(w)
    /\ LcdOnly

(* ======================= the system ======================= *)

(* The scheduler: a thread that has cleared the busy flag still has to    *)
(* read the record, sleep 0.2 s and write IDLE.  Later pipeline threads  *)
(* may run ahead of it by at most MaxOvertake steps.                     *)
Lingering(p) == { t \in ScanIds : p[t] \in {"read_last", "set_idle"} }

Sched(s) ==
    /\ (s \notin Lingering(pc) /\ Lingering(pc) # {}) => overtake < MaxOvertake
    /\ overtake' = IF Lingering(pc') = {} THEN 0
                   ELSE IF s \notin Lingering(pc) /\ Lingering(pc) # {}
                        THEN overtake + 1
                        ELSE overtake

Next ==
    \/ scan_start /\ UNCHANGED overtake /\ NoDisplay /\ NoIngest /\ NoSensor
    \/ \E code \in ButtonCodes : handle_button_event(code) /\ UNCHANGED overtake /\ NoDisplay /\ NoIngest /\ NoSensor
    \/ \E c \in Callers : start_scan_create(c) /\ UNCHANGED overtake /\ NoDisplay /\ NoIngest /\ NoSensor
    \/ \E c \in Callers : start_scan_spawn(c) /\ UNCHANGED overtake /\ NoDisplay /\ NoIngest /\ NoSensor
    \/ \E s \in ScanIds : run_scan_ensure_dir(s) /\ Sched(s) /\ NoAnswer /\ NoDisplay /\ NoIngest /\ NoSensor
    \/ \E s \in ScanIds : run_scan_led_on(s) /\ Sched(s) /\ NoAnswer /\ NoDisplay /\ NoIngest /\ NoSensor
    \/ \E s \in ScanIds : prompt_for_label_status(s) /\ Sched(s) /\ NoAnswer /\ NoDisplay /\ NoIngest /\ NoSensor
    \/ \E s \in ScanIds : prompt_for_label_input(s) /\ Sched(s) /\ NoAnswer /\ NoDisplay /\ NoIngest /\ NoSensor
    \/ \E s \in ScanIds : prompt_for_label_write(s) /\ Sched(s) /\ NoAnswer /\ NoDisplay /\ NoIngest /\ NoSensor
    \/ \E s \in ScanIds : wait_for_positioning_status(s) /\ Sched(s) /\ NoAnswer /\ NoDisplay /\ NoIngest /\ NoSensor
    \/ \E s \in ScanIds : wait_for_positioning_tick(s) /\ Sched(s) /\ NoAnswer /\ NoDisplay /\ NoIngest /\ NoSensor
    \/ \E s \in ScanIds : capture_photos_status(s) /\ Sched(s) /\ NoAnswer /\ NoDisplay /\ NoIngest /\ NoSensor
    \/ \E s \in ScanIds : capture_photos_setup(s) /\ Sched(s) /\ NoAnswer /\ NoDisplay /\ NoIngest /\ NoSensor
    \/ \E s \in ScanIds : capture_photos_ring_set(s) /\ Sched(s) /\ NoAnswer /\ NoDisplay /\ NoIngest /\ NoSensor
    \/ \E s \in ScanIds : capture_locked(s) /\ Sched(s) /\ NoAnswer /\ NoDisplay /\ NoIngest /\ NoSensor
    \/ \E s \in ScanIds : capture_photos_meta(s) /\ Sched(s) /\ NoAnswer /\ NoDisplay /\ NoIngest /\ NoSensor
    \/ \E s \in ScanIds : capture_photos_restore(s) /\ Sched(s) /\ NoAnswer /\ NoDisplay /\ NoIngest /\ NoSensor
    \/ \E s \in ScanIds : record_texture_prep(s) /\ Sched(s) /\ NoAnswer /\ NoDisplay /\ NoIngest /\ NoSensor
    \/ \E s \in ScanIds : record_texture_tick(s) /\ Sched(s) /\ NoAnswer /\ NoDisplay /\ NoIngest /\ NoSensor
    \/ \E s \in ScanIds : record_texture_status(s) /\ Sched(s) /\ NoAnswer /\ NoDisplay /\ NoIngest /\ NoSensor
    \/ \E s \in ScanIds : record_audio_wav(s) /\ Sched(s) /\ NoAnswer /\ NoDisplay /\ NoIngest /\ NoSensor
    \/ \E s \in ScanIds : process_audio_status(s) /\ Sched(s) /\ NoAnswer /\ NoDisplay /\ NoIngest /\ NoSensor
    \/ \E s \in ScanIds : sox_remove_dc(s) /\ Sched(s) /\ NoAnswer /\ NoDisplay /\ NoIngest /\ NoSensor
    \/ \E s \in ScanIds : sox_stat_raw(s) /\ Sched(s) /\ NoAnswer /\ NoDisplay /\ NoIngest /\ NoSensor
    \/ \E s \in ScanIds : sox_stat_nodc(s) /\ Sched(s) /\ NoAnswer /\ NoDisplay /\ NoIngest /\ NoSensor
    \/ \E s \in ScanIds : sox_normalize(s) /\ Sched(s) /\ NoAnswer /\ NoDisplay /\ NoIngest /\ NoSensor
    \/ \E s \in ScanIds : sox_stat_norm(s) /\ Sched(s) /\ NoAnswer /\ NoDisplay /\ NoIngest /\ NoSensor
    \/ \E s \in ScanIds : sox_spectrogram(s) /\ Sched(s) /\ NoAnswer /\ NoDisplay /\ NoIngest /\ NoSensor
    \/ \E s \in ScanIds : save_scan_results(s) /\ Sched(s) /\ NoAnswer /\ NoDisplay /\ NoIngest /\ NoSensor
    \/ \E s \in ScanIds : run_gemini_analysis_status(s) /\ Sched(s) /\ NoAnswer /\ NoDisplay /\ NoIngest /\ NoSensor
    \/ \E s \in ScanIds : analyze_with_gemini(s) /\ Sched(s) /\ NoAnswer /\ NoDisplay /\ NoIngest /\ NoSensor
    \/ \E s \in ScanIds : run_gemini_analysis_write(s) /\ Sched(s) /\ NoAnswer /\ NoDisplay /\ NoIngest /\ NoSensor
    \/ \E s \in ScanIds : run_gemini_analysis_generating(s) /\ Sched(s) /\ NoAnswer /\ NoDisplay /\ NoIngest /\ NoSensor
    \/ \E s \in ScanIds : generate_product_image(s) /\ Sched(s) /\ NoAnswer /\ NoDisplay /\ NoIngest /\ NoSensor
    \/ \E s \in ScanIds : run_gemini_analysis_rewrite(s) /\ Sched(s) /\ NoAnswer /\ NoDisplay /\ NoIngest /\ NoSensor
    \/ \E s \in ScanIds : run_gemini_analysis_ingesting(s) /\ Sched(s) /\ NoAnswer /\ NoDisplay /\ NoIngest /\ NoSensor
    \/ \E s \in ScanIds : ingest_to_hardware_api(s) /\ Sched(s) /\ NoAnswer /\ NoDisplay /\ NoIngest /\ NoSensor
    \/ \E s \in ScanIds : run_scan_done(s) /\ Sched(s) /\ NoAnswer /\ NoDisplay /\ NoIngest /\ NoSensor
    \/ \E s \in ScanIds : run_scan_except(s) /\ Sched(s) /\ NoAnswer /\ NoDisplay /\ NoIngest /\ NoSensor
    \/ \E s \in ScanIds : cleanup_ring_off(s) /\ Sched(s) /\ NoAnswer /\ NoDisplay /\ NoIngest /\ NoSensor
    \/ \E s \in ScanIds : cleanup_led_off(s) /\ Sched(s) /\ NoAnswer /\ NoDisplay /\ NoIngest /\ NoSensor
    \/ \E s \in ScanIds : cleanup_busy_clear(s) /\ Sched(s) /\ NoAnswer /\ NoDisplay /\ NoIngest /\ NoSensor
    \/ \E s \in ScanIds : cleanup_read_last(s) /\ Sched(s) /\ NoAnswer /\ NoDisplay /\ NoIngest /\ NoSensor
    \/ \E s \in ScanIds : cleanup_set_idle(s) /\ Sched(s) /\ NoAnswer /\ NoDisplay /\ NoIngest /\ NoSensor


Spec == Init /\ [][Next]_vars

(* The same program while at most MaxSoloScans start requests pass the  *)
(* gate.                                                                *)
NextOne ==
    /\ Next
    /\ (nextId' - 1) + Cardinality({ c \in Callers : cpc'[c] = "create" })
            <= MaxSoloScans

SpecOne == Init /\ [][NextOne]_vars

(* the operator answers the prompt with a plain label or with nothing *)
PlainInputs == { << >>, << "d" >> }
PlainTyping == \A s \in ScanIds : typed'[s] \in PlainInputs

(* The program with its label endpoint, while no hardware, file or tool *)
(* fails more than MaxApiFaults times and the operator types plainly.   *)
NextApi ==
    \/ NextOne /\ faults' <= MaxApiFaults /\ PlainTyping
    \/ \E id \in ScanIds, payload \in LabelPayloads :
          scan_label(id, payload) /\ faults' <= MaxApiFaults

SpecApi == Init /\ [][NextApi]_vars

(* The program with its status endpoint *)
NextStatus ==
    \/ NextOne /\ faults' <= MaxApiFaults /\ PlainTyping
    \/ scan_status

SpecStatus == Init /\ [][NextStatus]_vars

(* The finally block of _run_scan on its own, executed twice in a row:  *)
(* the first execution by thread 1 at the end of a session that shows   *)
(* DONE or ERROR, with the ring, the LED and the camera in any state;   *)
(* the second by thread 2 once thread 1 has ended.                      *)
CleanupRuns == 2
EndStatuses ==
    { ScanStatus("DONE", 1, 1, "Scan complete", 100),
      ScanStatus("ERROR", 1, 1, "camera capture failed", 100) }

InitCleanup ==
    /\ status \in EndStatuses
    /\ busy = TRUE
    /\ lockOwner = NoLock
    /\ nextId = 2
    /\ cpc = [c \in Callers |-> "idle"]
    /\ cres = [c \in Endpoints |-> NoResult]
    /\ cid = [c \in Callers |-> NoId]
    /\ pc = [s \in ScanIds |-> IF s <= CleanupRuns THEN "cleanup_ring" ELSE "none"]
    /\ label = [s \in ScanIds |-> << >>]
    /\ typed = [s \in ScanIds |-> << >>]
    /\ exc = [s \in ScanIds |-> ""]
    /\ last_id = [s \in ScanIds |-> NoId]
    /\ last_msg = [s \in ScanIds |-> ""]
    /\ idx = [s \in ScanIds |-> 0]
    /\ ring \in {"off"} \cup { LIGHTING_SCHEDULE[i] : i \in 1..Len(LIGHTING_SCHEDULE) }
    /\ led \in BOOLEAN
    /\ ae \in BOOLEAN
    /\ dirs = {1}
    /\ files = [s \in ScanIds |-> {}]
    /\ docs = [s \in ScanIds |-> NoDocs]
    /\ captured_images = [s \in ScanIds |-> << >>]
    /\ audio_data = [s \in ScanIds |-> None]
    /\ faults = 0
    /\ failed = [s \in ScanIds |-> {}]
    /\ cleared = {}
    /\ accepted = {1}
    /\ overtake = 0
    /\ LcdInit
    /\ ingest_call = NoIngestCall
    /\ SensorInit

(* the thread whose turn it is: the executions follow one another *)
InTurn(s) == s <= CleanupRuns /\ \A r \in 1..(s - 1) : pc[r] = "dead"

NextCleanup ==
    \/ \E s \in ScanIds : InTurn(s) /\ cleanup_ring_off(s) /\ NoAnswer /\ UNCHANGED overtake /\ NoDisplay /\ NoIngest /\ NoSensor
    \/ \E s \in ScanIds : InTurn(s) /\ cleanup_led_off(s) /\ NoAnswer /\ UNCHANGED overtake /\ NoDisplay /\ NoIngest /\ NoSensor
    \/ \E s \in ScanIds : InTurn(s) /\ cleanup_busy_clear(s) /\ NoAnswer /\ UNCHANGED overtake /\ NoDisplay /\ NoIngest /\ NoSensor
    \/ \E s \in ScanIds : InTurn(s) /\ cleanup_read_last(s) /\ NoAnswer /\ UNCHANGED overtake /\ NoDisplay /\ NoIngest /\ NoSensor
    \/ \E s \in ScanIds : InTurn(s) /\ cleanup_set_idle(s) /\ NoAnswer /\ UNCHANGED overtake /\ NoDisplay /\ NoIngest /\ NoSensor

SpecCleanup == InitCleanup /\ [][NextCleanup]_vars

(* lcd_write on its own, called by MaxWriters threads at any time *)
NextLcd ==
    \/ \E w \in LcdWriters, call \in LcdCalls : lcd_write_fit(w, call)
    \/ \E w \in LcdWriters : lcd_write_acquire(w)
    \/ \E w \in LcdWriters : lcd_write_cursor0(w)
    \/ \E w \in LcdWriters : lcd_write_line1(w)
    \/ \E w \in LcdWriters : lcd_write_cursor1(w)
    \/ \E w \in LcdWriters : lcd_write_line2(w)

SpecLcd == Init /\ [][NextLcd]_vars

TypeOK ==
    /\ status.state \in {"IDLE", "ARMING", "LABEL", "POSITION", "IMAGES",
                         "TEXTURE", "PROCESSING", "ANALYZING", "GENERATING",
                         "INGESTING", "DONE", "ERROR"}
    /\ status.scan_id \in ScanIds \cup {NoId}
    /\ status.progress \in 0..100
    /\ busy \in BOOLEAN
    /\ lockOwner \in Callers \cup {NoLock}
    /\ nextId \in 1..(MaxScans + 1)
    /\ \A s \in ScanIds : typed[s] \in LabelInputs

(* ======================= properties ======================= *)

(* a pipeline task: a thread inside _run_scan, from its first statement *)
(* until the function returns or the thread dies                        *)
Live(s) == pc[s] \notin {"none", "dead"}

(* the step in which start_scan accepts a request *)
Accepts(c) == cpc[c] = "create" /\ cpc'[c] = "spawn"

(* C1: single-flight - in every reachable state at most one pipeline    *)
(* task exists (cleanup block and final IDLE write included).           *)
C1_SingleFlight == Cardinality({ s \in ScanIds : Live(s) }) <= 1

(* C2: the start gate is an atomic check-and-set - among racing         *)
(* start_scan calls at most one passes the busy test at a time, it      *)
(* holds the lock while the flag is still clear, and never do two       *)
(* accepted sessions hold the gate together (a session holds it from    *)
(* acceptance until its cleanup clears the flag); the other callers     *)
(* are rejected.  HTTP and button use the same start_scan_check.        *)
C2_AtomicGate ==
    /\ Cardinality(accepted \ cleared) <= 1
    /\ Cardinality({ c \in Callers : cpc[c] = "create" }) <= 1
    /\ \A c \in Callers : cpc[c] = "create" => (lockOwner = c /\ ~busy)
    /\ \A c \in Callers : cpc[c] = "spawn" => cid[c] \in accepted
    /\ cres[HTTP] = BusyError => accepted # {}

(* the button click was accepted for the first session and has not yet  *)
(* returned, and the HTTP start that raced with it got the busy error   *)
C2_Witness ==
    /\ cpc[BUTTON] = "spawn"
    /\ cid[BUTTON] = 1
    /\ cres[HTTP] = BusyError

(* C3: a start_scan call made while the busy flag is set fails with the *)
(* busy error and has no other effect - the call is over at once, no    *)
(* thread is launched, no directory or file is created and the status   *)
(* record, the flag and the id source are unchanged.                    *)
C3_BusyStartNoEffect ==
    [][ /\ (busy /\ start_scan_check(HTTP)) => cres'[HTTP] = BusyError
        /\ (busy /\ (start_scan_check(HTTP) \/ start_scan_check(BUTTON))) =>
              /\ status' = status
              /\ busy' = busy
              /\ nextId' = nextId
              /\ pc' = pc
              /\ cpc' = cpc
              /\ lockOwner' = lockOwner
              /\ dirs' = dirs
              /\ files' = files
              /\ accepted' = accepted ]_vars

(* a start was rejected while the running session waits at the prompt *)
C3_Witness ==
    /\ busy
    /\ cres[HTTP] = BusyError
    /\ \E s \in ScanIds : pc[s] = "input" /\ status.scan_id = s
    /\ cpc[HTTP] = "idle"

(* C4: a start is accepted only while the visible state is IDLE. *)
C4_StartOnlyFromIdle ==
    [][ \A c \in Callers : Accepts(c) => status.state = "IDLE" ]_vars

(* C5: guaranteed cleanup - a pipeline thread never ends without having *)
(* cleared the busy flag, whatever step of it failed.                   *)
C5_CleanupAlwaysRuns ==
    \A s \in ScanIds : pc[s] = "dead" => s \in cleared

(* C6: the last status write of a session sets IDLE and progress 0 and  *)
(* keeps the id and the final message of that session.                  *)
C6_IdleKeepsFinished ==
    [][ \A s \in ScanIds : (pc[s] = "set_idle" /\ pc'[s] = "dead") =>
            /\ status'.state = "IDLE"
            /\ status'.progress = 0
            /\ status'.scan_id = s
            /\ status'.message = (IF exc[s] = "" THEN "Scan complete" ELSE exc[s])
      ]_vars

(* C7: progress stays in [0,1] and decreases only at an acceptance (a   *)
(* new session begins) or together with the state becoming IDLE when    *)
(* no accepted session is still unfinished.                             *)
C7_ProgressMonotone ==
    [][ /\ status'.progress \in 0..100
        /\ status'.progress < status.progress =>
              \/ \E c \in Callers : Accepts(c)
              \/ /\ status'.state = "IDLE"
                 /\ \A t \in accepted : pc'[t] = "dead" ]_vars

(* C8: scan_id and started_at change only when a start is accepted. *)
C8_ScanIdImmutable ==
    [][ (status'.scan_id # status.scan_id \/ status'.started_at # status.started_at)
            => \E c \in Callers : Accepts(c) ]_vars

Stages == << "ARMING", "LABEL", "POSITION", "IMAGES", "TEXTURE", "PROCESSING",
             "ANALYZING", "GENERATING", "INGESTING", "DONE" >>
StageIndex(st) == CHOOSE i \in 1..Len(Stages) : Stages[i] = st
IsStage(st) == \E i \in 1..Len(Stages) : Stages[i] = st

(* the edges of the linear state machine *)
Edge(a, b) ==
    \/ a = "IDLE" /\ b = "ARMING"
    \/ IsStage(a) /\ IsStage(b) /\ StageIndex(b) = StageIndex(a) + 1
    \/ a = "ANALYZING" /\ b = "DONE"
    \/ a = "GENERATING" /\ b = "DONE"
    \/ b = "ERROR"
    \/ a \in {"DONE", "ERROR"} /\ b = "IDLE"

(* C9: every change of the visible state is an edge of the machine. *)
C9_AllowedEdges ==
    [][ status'.state # status.state => Edge(status.state, status'.state) ]_vars

(* the steps whose failure the source lets escape to "except" and that  *)
(* belong to label, capture, recording, audio transformation and the    *)
(* combined results document                                            *)
MandatorySteps ==
    { "input", "label_write", "images_setup", "ring_set", "capture",
      "ae_restore", "texture_prep", "record", "sox_dc", "stat_raw",
      "stat_nodc", "sox_norm", "stat_norm", "save" }

ErrorPath == { "except", "cleanup_ring", "cleanup_led", "busy_clear",
               "read_last", "set_idle", "dead" }

FailureGoesToError(steps) ==
        \A s \in ScanIds :
          /\ (failed'[s] \cap steps # {}) => pc'[s] \in ErrorPath
          /\ (failed[s] \cap steps # {} /\ pc[s] = "except" /\ pc'[s] # "except") =>
                /\ status'.state = "ERROR"
                /\ status'.message = exc[s]
                /\ exc[s] # ""
          /\ (failed[s] \cap steps # {} /\ pc'[s] # pc[s]) =>
                (NoAnswer /\ cpc' = cpc)

(* C10 as stated: a failure of any mandatory step, the LED call of the  *)
(* arming step included, moves the state to ERROR with the exception    *)
(* text, skips every later stage and never reaches the caller.          *)
C10_Original == [][FailureGoesToError(MandatorySteps \cup {"led_on"})]_vars

(* C10 amended: the same for every mandatory step other than the LED    *)
(* call, whose failure _set_button_led logs and swallows.               *)
C10_MandatoryFailureIsError == [][FailureGoesToError(MandatorySteps)]_vars

(* the recording failed: ERROR with the tool's text is visible, the     *)
(* later stages were skipped, the start call returned long ago          *)
C10_Witness ==
    \E s \in ScanIds :
        /\ failed[s] = {"record"}
        /\ pc[s] = "cleanup_ring"
        /\ status.state = "ERROR"
        /\ status.message = "Command failed rc=1: arecord"
        /\ s \in accepted
        /\ \A c \in Callers : cpc[c] = "idle" /\ cres[c] = NoResult

(* the steps of _run_gemini_analysis that can fail: the analysis call,  *)
(* the two writes of the final-results document, the image generation,  *)
(* the extraction of roughness and stiffness, the ingest call           *)
EnrichmentSteps ==
    { "analyze", "final_results", "generate", "final_results_image",
      "tactile_data", "ingest" }

(* C11: soft failures never abort the session - a session in which a    *)
(* step of the analysis, generation or ingest stages has failed never   *)
(* enters the except-handler, so it never shows ERROR.                  *)
C11_SoftFailuresNeverAbort ==
    \A s \in ScanIds :
        (failed[s] \cap EnrichmentSteps # {}) => pc[s] # "except"

(* what the session directory holds after a run in which nothing failed *)
LightingFiles == { get_photo_filename(LIGHTING_SCHEDULE[i]) : i \in 1..Len(LIGHTING_SCHEDULE) }
LightingMetaFiles == { get_photo_meta_filename(LIGHTING_SCHEDULE[i]) : i \in 1..Len(LIGHTING_SCHEDULE) }
AudioFiles == { AUDIO_TEXTURE_RAW, AUDIO_TEXTURE_NODC, AUDIO_TEXTURE_NORM }
AllArtifacts ==
    {METADATA_LABEL_TXT} \cup LightingFiles \cup LightingMetaFiles \cup AudioFiles
        \cup {TEXTURE_SPECTROGRAM, TEXTURE_SCAN_JSON, RESULTS_FINAL_JSON,
              GENERATED_PRODUCT_IMAGE}
AllImages ==
    [ i \in 1..Len(LIGHTING_SCHEDULE) |->
        << LIGHTING_SCHEDULE[i], get_photo_filename(LIGHTING_SCHEDULE[i]) >> ]
AllDocs(s, lbl) ==
    [ label_txt |-> [ text |-> Append(lbl, "\n") ],
      label_json |-> NoDoc,
      texture_scan |-> [ scan_id |-> s, label |-> lbl,
                         audio |-> AudioData(TRUE), images |-> AllImages ],
      results_final |-> [ scan_id |-> s, label |-> lbl,
                          material_analysis |-> "gemini_analysis",
                          generated_product_image |-> GENERATED_PRODUCT_IMAGE ] ]

(* the step in which the session shows DONE *)
Done(s) == pc[s] = "done_status" /\ pc'[s] = "cleanup_ring"

(* C12: a spectrogram failure is non-fatal - when the render is the     *)
(* only step that failed, the session goes on to save the combined      *)
(* document and shows DONE, never ERROR; at DONE the directory and the  *)
(* documents are those of a run without failure except that the         *)
(* spectrogram file is absent and the spectrogram entry is None.        *)
C12_SpectrogramNonFatal ==
    [][ \A s \in ScanIds : failed'[s] = {"spectrogram"} =>
          /\ pc'[s] # "except"
          /\ pc[s] = "spectrogram" =>
                /\ pc'[s] = "save"
                /\ audio_data'[s] = [AudioData(TRUE) EXCEPT !.spectrogram_png = None]
          /\ Done(s) =>
                /\ status'.state = "DONE"
                /\ files'[s] = AllArtifacts \ {TEXTURE_SPECTROGRAM}
                /\ docs'[s] = [AllDocs(s, label[s]) EXCEPT
                                  !.texture_scan.audio.spectrogram_png = None] ]_vars

(* the render failed, nothing else did, and the session shows DONE with *)
(* the combined document on disk                                        *)
C12_Witness ==
    \E s \in ScanIds :
        /\ failed[s] = {"spectrogram"}
        /\ pc[s] = "cleanup_ring"
        /\ status.state = "DONE"
        /\ TEXTURE_SCAN_JSON \in files[s]
        /\ TEXTURE_SPECTROGRAM \notin files[s]

(* C13: label_scan for an id without a directory answers not-found and  *)
(* changes nothing - no directory or file is created or modified, the   *)
(* status record, the busy flag and every thread stay as they are.      *)
C13_LabelUnknownId ==
    [][ \A id \in ScanIds, payload \in LabelPayloads :
          (id \notin dirs /\ scan_label(id, payload)) =>
              /\ cres'[LABEL] = NotFound(id)
              /\ dirs' = dirs
              /\ files' = files
              /\ docs' = docs
              /\ status' = status
              /\ busy' = busy
              /\ pc' = pc ]_vars

(* a label request for an id that was never handed out was answered    *)
(* not-found while a session with a directory is at the prompt          *)
C13_Witness ==
    \E id \in ScanIds, s \in ScanIds :
        /\ cres[LABEL] = NotFound(id)
        /\ id \notin dirs
        /\ id >= nextId
        /\ s \in dirs
        /\ pc[s] = "input"
        /\ files[s] = {}

(* C14: a successful label_scan writes only metadata_label.json of that *)
(* session's directory - state, message, progress, scan_id and the busy *)
(* flag are unchanged, the pipeline stays where it is (the prompt keeps *)
(* waiting) with its own label, and metadata_label.txt, the combined    *)
(* document and every other file keep their content.                    *)
C14_LabelOnlySideArtifact ==
    [][ \A id \in ScanIds, payload \in LabelPayloads :
          (cres'[LABEL] = Labeled(id) /\ scan_label(id, payload)) =>
              /\ status' = status
              /\ busy' = busy
              /\ pc' = pc
              /\ label' = label
              /\ dirs' = dirs
              /\ files' = [files EXCEPT ![id] = @ \cup {METADATA_LABEL_JSON}]
              /\ docs' = [docs EXCEPT ![id] = [@ EXCEPT !.label_json = payload]]
              /\ << ring, led, ae >>' = << ring, led, ae >> ]_vars

(* the label request succeeded for a finished session whose label file  *)
(* and combined document carry the label typed at the prompt            *)
C14_Witness ==
    \E s \in ScanIds :
        /\ cres[LABEL] = Labeled(s)
        /\ pc[s] = "dead"
        /\ docs[s].label_json \in LabelPayloads
        /\ docs[s].label_txt = [ text |-> << "d", "\n" >> ]
        /\ docs[s].texture_scan # NoDoc
        /\ docs[s].texture_scan.label = << "d" >>

(* positions at which the pipeline thread waits for the operator, sleeps, *)
(* drives hardware or runs an external process                           *)
BlockingSteps ==
    { "input", "position_tick", "ring_set", "capture", "texture_tick",
      "record", "sox_dc", "stat_raw", "stat_nodc", "sox_norm", "stat_norm",
      "spectrogram", "analyze", "generate", "ingest", "cleanup_ring",
      "set_idle" }

(* C15: status reads never block on the pipeline - between two steps no *)
(* pipeline thread holds the status lock, wherever it waits; the lock   *)
(* is free, and then get_status can answer, or it is held by a caller   *)
(* of start_scan that is about to create the record and release it.     *)
C15_StatusReadsNeverBlock ==
    /\ lockOwner \in Callers \cup {NoLock}
    /\ lockOwner = NoLock => ENABLED scan_status
    /\ lockOwner \in Callers => ENABLED start_scan_create(lockOwner)

(* the status was read while the pipeline waits at the label prompt *)
C15_Witness ==
    \E s \in ScanIds :
        /\ pc[s] = "input"
        /\ pc[s] \in BlockingSteps
        /\ cres[STATUS] = status
        /\ status.state = "LABEL"
        /\ status.scan_id = s

(* the schedule entries whose image session s has written *)
PhotosOf(s) ==
    { n \in 1..Len(LIGHTING_SCHEDULE) :
        get_photo_filename(LIGHTING_SCHEDULE[n]) \in files[s] }

(* the schedule entries whose name is in the captured_images of s, in *)
(* the order they were entered                                        *)
CapturedNames(s) ==
    [ n \in 1..Len(captured_images[s]) |-> captured_images[s][n][1] ]

(* the loop of s has finished exactly the first k entries *)
EntriesDone(s, k) ==
    /\ PhotosOf(s) = 1..k
    /\ CapturedNames(s) = SubSeq(LIGHTING_SCHEDULE, 1, k)

(* the step in which s applies a ring colour for a capture *)
RingApplied(s) == pc[s] = "ring_set" /\ pc'[s] = "capture"

(* the step in which s writes an image *)
ImageTaken(s) == pc[s] = "capture" /\ pc'[s] = "photo_meta"

PhotoOrder(s) ==
    LET k == Cardinality(PhotosOf(s)) + 1
    IN  /\ RingApplied(s) =>
            /\ k <= Len(LIGHTING_SCHEDULE)
            /\ EntriesDone(s, k - 1)
            /\ ring' = LIGHTING_SCHEDULE[k]
        /\ ImageTaken(s) =>
            /\ k <= Len(LIGHTING_SCHEDULE)
            /\ EntriesDone(s, k - 1)
            /\ files'[s] = files[s] \cup
                              {get_photo_filename(LIGHTING_SCHEDULE[k])}
            /\ ring = LIGHTING_SCHEDULE[k]

(* C16: the images are taken in the order of LIGHTING_SCHEDULE; the ring *)
(* colour of an entry is applied only after the image and the metadata   *)
(* step of every earlier entry, and the image of an entry is written     *)
(* while the ring shows that entry's colour.                             *)
C16_ScheduleOrder == [][\A s \in ScanIds : PhotoOrder(s)]_vars

(* all five images are on disk and the loop is over *)
C16_Witness ==
    \E s \in ScanIds :
        /\ pc[s] = "ae_restore"
        /\ EntriesDone(s, Len(LIGHTING_SCHEDULE))
        /\ ring = LIGHTING_SCHEDULE[Len(LIGHTING_SCHEDULE)]

(* C17: a session that has left the image stage without error has, for *)
(* every image of the lighting schedule, the sibling metadata file in   *)
(* its directory.                                                       *)
C17_MetadataForEveryImage ==
    \A s \in ScanIds :
        pc[s] = "texture_prep" => LightingMetaFiles \subseteq files[s]

(* the label _prompt_for_label makes of what was typed *)
Supplied(raw) == IF strip(raw) = << >> THEN UNLABELED ELSE strip(raw)

(* the artifacts of a DONE session, with lbl as the label of the *)
(* combined document                                              *)
DoneArtifacts(s, lbl) ==
    /\ LightingFiles \subseteq files[s]
    /\ AudioFiles \subseteq files[s]
    /\ TEXTURE_SCAN_JSON \in files[s]
    /\ DOMAIN docs[s].texture_scan = {"scan_id", "label", "audio", "images"}
    /\ docs[s].texture_scan.scan_id = s
    /\ docs[s].texture_scan.images = AllImages
    /\ docs[s].texture_scan.label = lbl

(* C18: when a session shows DONE its directory holds one image per     *)
(* schedule entry, the raw, DC-removed and normalized audio files, and  *)
(* a combined document that has the session's id, lists every image's   *)
(* file name and carries the label made of what the operator typed at   *)
(* the prompt: the input without surrounding blanks, or "unlabeled"     *)
(* when nothing else was typed.                                         *)
C18_DoneArtifacts ==
    [][\A s \in ScanIds : Done(s) => DoneArtifacts(s, Supplied(typed[s]))]_vars

(* C18 as stated: the label of the combined document equals what was *)
(* supplied at the prompt.                                           *)
C18_DoneArtifactsAsTyped ==
    [][\A s \in ScanIds : Done(s) => DoneArtifacts(s, typed[s])]_vars

(* a session that was given a padded label has passed every stage and *)
(* is at the status update that shows DONE                            *)
C18_Witness ==
    \E s \in ScanIds :
        /\ pc[s] = "done_status"
        /\ status.state = "INGESTING"
        /\ status.scan_id = s
        /\ typed[s] = << " ", "d", " " >>
        /\ DoneArtifacts(s, << "d" >>)

(* _run_gemini_analysis of s is over: it returned, or one of its own *)
(* statements raised                                                 *)
AnalysisStageOver(s) ==
    \/ pc[s] = "done_status"
    \/ /\ pc[s] = "except"
       /\ failed[s] \cap {"final_results", "final_results_image",
                          "tactile_data"} # {}

(* analyze_with_gemini returned a result *)
AnalysisSucceeded(s) == "analyze" \notin failed[s]

(* generate_product_image returned the path of the image it wrote *)
GenerationSucceeded(s) == GENERATED_PRODUCT_IMAGE \in files[s]

(* C19: the final-results document reflects exactly the enrichment     *)
(* steps that succeeded - when the analysis stage of a session is over, *)
(* results_final.json exists exactly if the analysis succeeded and it   *)
(* names the generated image exactly if the generation succeeded; after *)
(* a failed analysis the session goes on to DONE without the document   *)
(* and without a material_analysis entry in the combined document.      *)
C19_FinalResultsReflectSteps ==
    \A s \in ScanIds : AnalysisStageOver(s) =>
        /\ RESULTS_FINAL_JSON \in files[s] <=> AnalysisSucceeded(s)
        /\ "generated_product_image" \in DOMAIN docs[s].results_final
              <=> GenerationSucceeded(s)
        /\ ~AnalysisSucceeded(s) =>
              /\ pc[s] = "done_status"
              /\ docs[s].results_final = NoDoc
              /\ "material_analysis" \notin DOMAIN docs[s].texture_scan

(* the steps of the finally block of s *)
LedOffCalled(s) == pc[s] = "cleanup_led" /\ pc'[s] = "busy_clear"
GateReopens(s) == pc[s] = "busy_clear" /\ pc'[s] = "read_last"
SetsIdle(s) == pc[s] = "set_idle" /\ pc'[s] # "set_idle"

(* the order of the finally block; ledOff is what holds of the LED at *)
(* the moment s clears the busy flag                                  *)
CleanupOrder(s, ledOff) ==
    /\ LedOffCalled(s) => ring = "off" /\ busy /\ s \notin cleared
    /\ GateReopens(s) =>
          /\ busy /\ ~busy'
          /\ s \notin cleared
          /\ ring = "off"
          /\ ledOff
    /\ SetsIdle(s) => s \in cleared /\ status'.state = "IDLE"

controller == << ring, led, busy, status >>

(* a step of the second execution, taken after a complete first one *)
SecondRunStep == pc[1] = "dead" /\ 1 \in cleared /\ pc'[2] # pc[2]

(* a failed LED call goes on to clear the flag *)
LedFailureClearsBusy(s) ==
    /\ (pc[s] = "cleanup_led" /\ pc'[s] # pc[s]) => pc'[s] = "busy_clear"
    /\ pc[s] = "busy_clear" => ENABLED cleanup_busy_clear(s)
    /\ (pc[s] = "busy_clear" /\ pc'[s] # pc[s]) => ~busy' /\ s \in cleared'

LabelSaved(s) ==
    /\ METADATA_LABEL_TXT \in files[s]
    /\ docs[s].label_txt = [ text |-> Append(Supplied(typed[s]), "\n") ]

(* the label files _prompt_for_label can write *)
SavedLabels ==
    { [ text |-> Append(Supplied(raw), "\n") ] : raw \in LabelInputs }

(* the positions of s before the label file is written, and those of *)
(* the finally block                                                 *)
LabelSteps == { "none", "ensure_dir", "led_on", "label_status", "input",
               "label_write" }
CleanupSteps == { "cleanup_ring", "cleanup_led", "busy_clear", "read_last",
                 "set_idle" }

(* s is past its label prompt: in a later stage, or in the except *)
(* clause after a failure of a later stage                        *)
PastLabel(s) ==
    \/ pc[s] \notin LabelSteps \cup CleanupSteps \cup {"except", "dead"}
    \/ pc[s] = "except" /\ failed[s] \cap {"input", "label_write"} = {}

(* C22: the label gate precedes all capture - a session is in a stage   *)
(* after the prompt (ring colours, images, audio) only when its label   *)
(* file holds the stripped input, or "unlabeled" for an empty one; a     *)
(* failure of a later stage leaves the file, and a directory with an     *)
(* image or an audio clip always has its label file.                     *)
C22_LabelBeforeCapture ==
    \A s \in ScanIds :
        /\ PastLabel(s) => LabelSaved(s)
        /\ files[s] \cap (LightingFiles \cup AudioFiles) # {} =>
              /\ METADATA_LABEL_TXT \in files[s]
              /\ docs[s].label_txt \in SavedLabels

(* a capture failed after a padded label was saved: the file is there *)
C22_Witness ==
    \E s \in ScanIds :
        /\ pc[s] = "except"
        /\ failed[s] = {"capture"}
        /\ typed[s] = << " ", "d", " " >>
        /\ docs[s].label_txt = [ text |-> << "d", "\n" >> ]
        /\ LabelSaved(s)

(* positions of s between the GENERATING update and the INGESTING update, *)
(* and after the INGESTING update                                         *)
GeneratingSteps == { "generate", "final_results_image", "ingesting_status" }
IngestingSteps == { "ingest" }

(* s holds the gate: what the status record shows is the work of s *)
Running(s) == s \in accepted \ cleared

(* C23: GENERATING is entered only after the analysis of this session   *)
(* returned a result, INGESTING and the ingest call only after the       *)
(* generation of this session returned an image: a session whose         *)
(* analysis failed never shows GENERATING or INGESTING, one whose        *)
(* generation failed never shows INGESTING, and neither reaches the      *)
(* ingest call.                                                          *)
C23_EnrichmentGating ==
    \A s \in ScanIds :
        /\ pc[s] \in GeneratingSteps \cup IngestingSteps =>
              /\ AnalysisSucceeded(s)
              /\ "material_analysis" \in DOMAIN docs[s].results_final
        /\ pc[s] \in IngestingSteps =>
              /\ "generate" \notin failed[s]
              /\ GenerationSucceeded(s)
        /\ (Running(s) /\ ~AnalysisSucceeded(s)) =>
              status.state \notin {"GENERATING", "INGESTING"}
        /\ (Running(s) /\ "generate" \in failed[s]) =>
              status.state # "INGESTING"

(* the generation of a session failed: it showed GENERATING and goes on *)
(* to DONE past the ingest                                              *)
C23_Witness ==
    \E s \in ScanIds :
        /\ pc[s] = "done_status"
        /\ failed[s] = {"generate"}
        /\ Running(s)
        /\ status.state = "GENERATING"
        /\ status.scan_id = s

(* one pass of the positioning countdown of s *)
PositionTick(s) == pc[s] = "position_tick" /\ idx'[s] # idx[s]

(* C24: during the positioning stage every tick of the countdown *)
(* changes the progress that get_status reports.                 *)
C24_TickUpdatesProgress ==
    [][\A s \in ScanIds :
          PositionTick(s) => status'.progress # status.progress]_vars

(* the positions of _record_texture_audio at which s switches the ring *)
(* off, counts down and records                                        *)
TextureSteps == { "texture_prep", "texture_tick", "record" }

(* a step of s that is the ring-off, a countdown pass or the recording *)
TextureStep(s) ==
    /\ pc[s] \in TextureSteps
    /\ (pc'[s] # pc[s] \/ idx'[s] # idx[s])

(* C25: texture capture ordering - the ring is switched off before the  *)
(* countdown, the countdown is over before the recording starts, the    *)
(* ring is off for the whole recording, and the visible state is        *)
(* TEXTURE while ring-off, countdown and recording take place.          *)
C25_TextureOrdering ==
    [][\A s \in ScanIds :
          /\ (TextureStep(s) /\ pc[s] # "texture_prep") => ring = "off"
          /\ (TextureStep(s) /\ pc[s] = "record") => idx[s] = 0
          /\ TextureStep(s) => status.state = "TEXTURE" ]_vars

(* the statistics calls of _process_audio, and its mandatory calls *)
StatSteps == { "stat_raw", "stat_nodc", "stat_norm" }
MandatoryAudioSteps == { "sox_dc", "sox_norm" } \cup StatSteps

(* s runs the call at position p *)
Runs(s, p) == pc[s] = p /\ pc'[s] # p

(* C26: audio processing order - DC removal of the raw clip, then      *)
(* normalization of the DC-removed clip, then the statistics of the    *)
(* three variants, then the spectrogram attempt: no statistics call    *)
(* runs before the normalized clip exists; a failure of DC removal,    *)
(* normalization or a statistics call is fatal.                        *)
C26_AudioProcessingOrder ==
    [][\A s \in ScanIds :
          /\ Runs(s, "sox_dc") => AUDIO_TEXTURE_RAW \in files[s]
          /\ Runs(s, "sox_norm") => AUDIO_TEXTURE_NODC \in files[s]
          /\ \A p \in StatSteps :
                Runs(s, p) => AUDIO_TEXTURE_NORM \in files[s]
          /\ Runs(s, "spectrogram") => AUDIO_TEXTURE_NORM \in files[s]
          /\ (failed'[s] \ failed[s]) \cap MandatoryAudioSteps # {}
                => pc'[s] = "except"
      ]_vars

(* the artifacts of a session in the order of the stages that write them *)
StageOrder ==
    << METADATA_LABEL_TXT >>
      \o [ i \in 1..Len(LIGHTING_SCHEDULE) |->
             get_photo_filename(LIGHTING_SCHEDULE[i]) ]
      \o << AUDIO_TEXTURE_RAW, AUDIO_TEXTURE_NODC, AUDIO_TEXTURE_NORM,
            TEXTURE_SPECTROGRAM, TEXTURE_SCAN_JSON, RESULTS_FINAL_JSON,
            GENERATED_PRODUCT_IMAGE >>

(* the artifacts of StageOrder that appear in the directory of s with *)
(* this step                                                          *)
Appearing(s) ==
    { n \in 1..Len(StageOrder) :
        StageOrder[n] \in files'[s] \ files[s] }

(* the artifacts of StageOrder already in the directory of s *)
Present(s) ==
    { n \in 1..Len(StageOrder) : StageOrder[n] \in files[s] }

(* C27: within a session the artifacts appear on disk in stage order -  *)
(* label file, images in schedule order, raw audio, DC-removed and      *)
(* normalized audio, spectrogram, combined document, final document,    *)
(* generated image: whatever appears comes later in that order than     *)
(* everything already there; and the combined document exists only      *)
(* when all images and the three audio variants exist.                  *)
C27_ArtifactsInStageOrder ==
    [][\A s \in ScanIds : files'[s] # files[s] =>
          /\ \A n \in Appearing(s) : \A m \in Present(s) : m < n
          /\ TEXTURE_SCAN_JSON \in files'[s] =>
                LightingFiles \cup AudioFiles \subseteq files'[s] ]_vars

(* every artifact of the order is on disk *)
C27_Witness ==
    \E s \in ScanIds :
        /\ pc[s] = "final_results_image"
        /\ Present(s) = 1..Len(StageOrder)

(* the threads between the first and the last operation of a write *)
Writing == { w \in LcdWriters : lcd_call[w].pc \notin {"idle", "acquire"} }

(* the display operations are serialized, and both rows are 16 wide *)
LcdSerialized ==
    /\ Cardinality(Writing) <= 1
    /\ \A w \in Writing : lcd.lock = w
    /\ lcd.lock # NoWriter => lcd.lock \in Writing
    /\ \A r \in 1..2 : Len(lcd.rows[r]) = LCD_COLS

(* the display shows both lines of one call *)
ShowsOneCall == \E call \in LcdCalls \cup {BootMessage} : lcd.rows = Shown(call)

NoWriteSteps == {"none", "except", "dead"} \cup CleanupSteps

(* C29: a failed session keeps its artifacts - no step removes a file   *)
(* or a directory; the directory of a session and the documents in it   *)
(* change only in a step of that session's own pipeline body, never in  *)
(* its except clause or cleanup block, never after it has ended and     *)
(* never in a step of another session.                                  *)
C29_FailedSessionKeepsArtifacts ==
    [][\A s \in ScanIds :
          /\ files[s] \subseteq files'[s]
          /\ s \in dirs => s \in dirs'
          /\ (files'[s] # files[s] \/ docs'[s] # docs[s]) =>
                /\ pc[s] \notin NoWriteSteps
                /\ pc'[s] # pc[s] ]_vars

(* session 1 failed in the middle of its captures and has ended; its *)
(* label and images are still there while session 2 takes images     *)
C29_Witness ==
    /\ pc[1] = "dead"
    /\ 1 \in cleared
    /\ faults = 1
    /\ METADATA_LABEL_TXT \in files[1]
    /\ get_photo_filename(LIGHTING_SCHEDULE[1]) \in files[1]
    /\ ~(LightingFiles \subseteq files[1])
    /\ pc[2] = "capture"
    /\ get_photo_filename(LIGHTING_SCHEDULE[1]) \in files[2]

(* ======================= the ingest step ======================= *)

(* lines 1258-1270 of _run_gemini_analysis with their inputs: the       *)
(* analysis, whether the requests library was imported, whether the     *)
(* generated image is still there, and what the POST does.  The step    *)
(* of the pipeline is ingest_to_hardware_api(s); here its outcome is    *)
(* the one the inputs give, and the call is recorded.                   *)
run_gemini_analysis_ingest(s) ==
    \E analysis \in Analyses, requests_available \in BOOLEAN,
       outcome \in Outcomes :
        LET td == tactile_data(analysis)
            image_exists == GENERATED_PRODUCT_IMAGE \in files[s]
            returned == ingest_returns(requests_available, image_exists,
                                       outcome)
            inputs == [ NoIngestCall EXCEPT !.analysis = analysis,
                                            !.requests = requests_available,
                                            !.image = image_exists,
                                            !.outcome = outcome ]
        IN  /\ ingest_to_hardware_api(s)
            /\ IF ~HasGet(td)
               THEN /\ pc'[s] = "except"
                    /\ ingest_call' = inputs
               ELSE /\ pc'[s] = "done_status"
                    /\ ("ingest" \in failed'[s]) <=> ~returned
                    /\ ingest_call' = [ inputs EXCEPT
                                          !.called = TRUE,
                                          !.payload = tactile_payload(td),
                                          !.returned = returned ]

(* every artifact of a session whose steps all succeeded *)
FullDirectory == { StageOrder[i] : i \in 1..Len(StageOrder) }

(* Session 1 after the rewrite of results_final.json, label "d"; the *)
(* generated image may have been removed since it was written.       *)
InitIngest ==
    /\ status = ScanStatus("GENERATING", 1, 1, "Creating product image...", 95)
    /\ busy = TRUE
    /\ lockOwner = NoLock
    /\ nextId = 2
    /\ cpc = [c \in Callers |-> "idle"]
    /\ cres = [c \in Endpoints |-> NoResult]
    /\ cid = [c \in Callers |-> NoId]
    /\ pc = [s \in ScanIds |-> IF s = 1 THEN "ingesting_status" ELSE "none"]
    /\ label = [s \in ScanIds |-> IF s = 1 THEN << "d" >> ELSE << >>]
    /\ typed = label
    /\ exc = [s \in ScanIds |-> ""]
    /\ last_id = [s \in ScanIds |-> NoId]
    /\ last_msg = [s \in ScanIds |-> ""]
    /\ idx = [s \in ScanIds |-> 0]
    /\ ring = "off"
    /\ led = TRUE
    /\ ae = TRUE
    /\ dirs = {1}
    /\ captured_images = [s \in ScanIds |-> IF s = 1 THEN AllImages ELSE << >>]
    /\ audio_data = [s \in ScanIds |-> IF s = 1 THEN AudioData(TRUE) ELSE None]
    /\ \E gone \in SUBSET {GENERATED_PRODUCT_IMAGE} :
          files = [s \in ScanIds |-> IF s = 1 THEN FullDirectory \ gone ELSE {}]
    /\ docs = [s \in ScanIds |->
                 IF s = 1
                 THEN [ label_txt |-> [ text |-> << "d", "\n" >> ],
                        label_json |-> NoDoc,
                        texture_scan |-> Results(1),
                        results_final |-> FinalResultsWithImage(1) ]
                 ELSE NoDocs]
    /\ faults = 0
    /\ failed = [s \in ScanIds |-> {}]
    /\ cleared = {}
    /\ accepted = {1}
    /\ overtake = 0
    /\ LcdInit
    /\ ingest_call = NoIngestCall
    /\ SensorInit

NextIngest ==
    \/ \E s \in ScanIds : run_gemini_analysis_ingesting(s) /\ NoAnswer /\ UNCHANGED overtake /\ NoDisplay /\ NoIngest /\ NoSensor
    \/ \E s \in ScanIds : run_gemini_analysis_ingest(s) /\ NoAnswer /\ UNCHANGED overtake /\ NoDisplay /\ NoSensor
    \/ \E s \in ScanIds : run_scan_done(s) /\ NoAnswer /\ UNCHANGED overtake /\ NoDisplay /\ NoIngest /\ NoSensor
    \/ \E s \in ScanIds : run_scan_except(s) /\ NoAnswer /\ UNCHANGED overtake /\ NoDisplay /\ NoIngest /\ NoSensor
    \/ \E s \in ScanIds : cleanup_ring_off(s) /\ NoAnswer /\ UNCHANGED overtake /\ NoDisplay /\ NoIngest /\ NoSensor
    \/ \E s \in ScanIds : cleanup_led_off(s) /\ NoAnswer /\ UNCHANGED overtake /\ NoDisplay /\ NoIngest /\ NoSensor
    \/ \E s \in ScanIds : cleanup_busy_clear(s) /\ NoAnswer /\ UNCHANGED overtake /\ NoDisplay /\ NoIngest /\ NoSensor
    \/ \E s \in ScanIds : cleanup_read_last(s) /\ NoAnswer /\ UNCHANGED overtake /\ NoDisplay /\ NoIngest /\ NoSensor
    \/ \E s \in ScanIds : cleanup_set_idle(s) /\ NoAnswer /\ UNCHANGED overtake /\ NoDisplay /\ NoIngest /\ NoSensor

SpecIngest == InitIngest /\ [][NextIngest]_vars

(* the endpoint was reached and answered with HTTP 200 *)
Answered200(call) ==
    call.requests /\ call.image /\ call.outcome = "200"

(* the ingest call reports success exactly when the endpoint answered 200 *)
IngestReportsAnswer ==
    ingest_call.called => (ingest_call.returned <=> Answered200(ingest_call))

(* after the call, whatever it returned, the session shows DONE while *)
(* its cleanup block runs                                             *)
IngestedSessionDone ==
    ingest_call.called /\ pc[1] \in CleanupSteps => status.state = "DONE"

(* the analysis has no value for the key: there is no tactile object, *)
(* the object has no such key, or the key holds null                  *)
Lacks(analysis, key) ==
    \/ ~HasGet(tactile_data(analysis))
    \/ tactile_data(analysis)[key] \in { Absent, Null }

(* the ingest step of the session is over *)
IngestStepOver == ingest_call.outcome # "none"

(* C30: the ingest call reports success if and only if the endpoint     *)
(* answered with HTTP 200 - a missing image file, a non-200 status, a   *)
(* transport error or any other exception gives the return value False  *)
(* - and the session still reaches DONE; for every tactile value that   *)
(* the analysis lacks the payload is forwarded with 0.0 in its place.   *)
C30_IngestOutcome ==
    /\ IngestReportsAnswer
    /\ IngestedSessionDone
    /\ IngestStepOver =>
          \A key \in TactileKeys :
              Lacks(ingest_call.analysis, key) =>
                  /\ ingest_call.called
                  /\ ingest_call.payload[key] = DEFAULT_TACTILE

(* C31: state and guard agree - outside the critical sections of the    *)
(* status lock the visible state is IDLE if and only if the busy flag   *)
(* is clear: never IDLE while an accepted session still holds the gate, *)
(* never another state while a new start would be accepted.             *)
C31_StateAndGuardAgree ==
    lockOwner = NoLock => (status.state = "IDLE" <=> ~busy)

(* the positions of a session at which its LED has not yet been        *)
(* switched on or has already been switched off by its cleanup block   *)
LedOffSteps ==
    { "none", "ensure_dir", "led_on", "busy_clear", "read_last", "set_idle",
      "dead" }

(* C32: the button LED signals 'busy' for the whole active session -    *)
(* from the Arming step (the LED switched on without error) until the   *)
(* cleanup block switches it off the LED is on, whatever button events  *)
(* arrive in between.                                                   *)
C32_LedOnWhileActive ==
    \A s \in ScanIds :
        pc[s] \notin LedOffSteps /\ "led_on" \notin failed[s] => led

(* C33: camera auto-exposure is restored on every exit - whenever no    *)
(* pipeline thread is running (every session that started is back at    *)
(* IDLE, whether it ended DONE or ERROR) auto-exposure is enabled, as   *)
(* it was before the first session.                                     *)
C33_AutoExposureRestored ==
    (\A s \in ScanIds : ~Live(s)) => ae

(* ======================= the two locks ======================= *)

(* the positions of a pipeline thread whose next statements begin with *)
(* a call of lcd_step                                                  *)
LcdStepAt ==
    { "led_on", "input", "position_status", "position_tick", "ring_set",
      "capture", "texture_prep", "texture_tick", "sox_dc", "sox_norm",
      "spectrogram", "analyze", "generating_status", "generate",
      "ingesting_status", "ingest", "done_status", "cleanup_ring",
      "set_idle" }

(* self.lcd_step("Idle", "Ready") *)
IDLE_READY == << << "I","d","l","e" >>, << "R","e","a","d","y" >> >>

(* pipeline thread s executes a statement of _run_scan *)
Steps(s) == pc'[s] # pc[s] \/ idx'[s] # idx[s]

(* a thread inside lcd_write is not at its next statement yet *)
InLcdWrite(s) == s \in LcdWriters /\ lcd_call[s].pc # "idle"

(* The program with its status endpoint and with the display writes of *)
(* its pipeline threads, each a call of lcd_write by the thread at one *)
(* of its lcd_step positions; the text, which the locks do not depend  *)
(* on, is always the same.  The display may fail at every operation;   *)
(* the hardware, files and tools of the pipeline do not.               *)
NextLocks ==
    \/ /\ NextOne
       /\ faults' = faults
       /\ PlainTyping
       /\ \A s \in ScanIds : Steps(s) => ~InLcdWrite(s)
    \/ scan_status
    \/ \E w \in LcdWriters \cap ScanIds :
          pc[w] \in LcdStepAt /\ lcd_write_fit(w, IDLE_READY)
    \/ \E w \in LcdWriters : lcd_write_acquire(w)
    \/ \E w \in LcdWriters : lcd_write_cursor0(w)
    \/ \E w \in LcdWriters : lcd_write_line1(w)
    \/ \E w \in LcdWriters : lcd_write_cursor1(w)
    \/ \E w \in LcdWriters : lcd_write_line2(w)

SpecLocks == Init /\ [][NextLocks]_vars

(* the positions of lcd_write inside "with self.lcd_lock" *)
InsideLcdLock == { "cursor0", "write1", "cursor1", "write2" }

(* the next step of the thread that holds the display lock *)
LcdHolderStep(w) ==
    \/ lcd_write_cursor0(w)
    \/ lcd_write_line1(w)
    \/ lcd_write_cursor1(w)
    \/ lcd_write_line2(w)

UpdateStatusSteps ==
    { "label_status", "position_status", "images_status", "texture_status",
      "processing_status", "analyzing_status", "generating_status",
      "ingesting_status", "done_status", "except" }

(* state, message and progress as the calls of _update_status with *)
(* fixed arguments write them                                      *)
FixedUpdates ==
    { << "LABEL", "Waiting for terminal label...", 5 >>,
      << "POSITION", "Position item (3s)...", 10 >>,
      << "IMAGES", "Capturing images under 5 lights...", 25 >>,
      << "TEXTURE", "Recording texture audio (3s)...", 70 >>,
      << "PROCESSING", "Post-processing audio...", 85 >>,
      << "ANALYZING", "Gemini AI analysis...", 90 >>,
      << "GENERATING", "Creating product image...", 95 >>,
      << "INGESTING", "Sending to API...", 98 >>,
      << "DONE", "Scan complete", 100 >> }

(* the three fields of st come from one update: the record created by *)
(* start_scan, a call of _update_status (ERROR with the text of the   *)
(* exception), or the IDLE write (with the message read before it;    *)
(* the record of the constructor is of this form too)                 *)
WrittenTogether(st) ==
    \/ st.state = "ARMING" /\ st.message = "Arming scan..." /\ st.progress = 5
    \/ << st.state, st.message, st.progress >> \in FixedUpdates
    \/ st.state = "ERROR" /\ st.progress = 100
    \/ st.state = "IDLE" /\ st.progress = 0

(* the status endpoint has just answered *)
StatusAnswered == "state" \in DOMAIN cres[STATUS]

(* C35: status snapshots are never torn - every answer of get_status    *)
(* carries a state, message and progress written by one single update,  *)
(* and it is the record as it stands; no call of _update_status changes *)
(* scan_id or started_at.                                               *)
C35_SnapshotsNeverTorn ==
    [][/\ StatusAnswered' =>
             /\ cres'[STATUS] = status
             /\ WrittenTogether(cres'[STATUS])
       /\ \A s \in ScanIds :
             (pc[s] \in UpdateStatusSteps /\ pc'[s] # pc[s]) =>
                 /\ status'.scan_id = status.scan_id
                 /\ status'.started_at = status.started_at ]_vars

(* the status is read after _update_status("POSITION", ...) of session 1 *)
C35_Witness ==
    /\ StatusAnswered
    /\ cres[STATUS].state = "POSITION"
    /\ cres[STATUS].scan_id = 1
    /\ cres[STATUS].started_at = 1
    /\ pc[1] = "position_tick"

(* a button event starts nothing and leaves the controller, the running *)
(* pipeline, its files and the ring and camera alone                    *)
StartsNothing ==
    /\ UNCHANGED << status, busy, lockOwner, nextId, cpc, cid, pc >>
    /\ UNCHANGED << localVars, fsVars, ring, ae, accepted, cleared >>
    /\ \A c \in Endpoints : cres'[c] = NoResult

scannerVars == << status, busy, lockOwner, nextId, cpc, cres, cid, pc, label,
                  typed, exc, last_id, last_msg, idx, ring, led, ae, dirs,
                  files, docs, captured_images, audio_data, faults, failed,
                  cleared, accepted, overtake, lcd, lcd_call, ingest_call >>

SensorAt(t, p) == sensor.th[t].pc = p

(* get_temp has returned or raised: its locals are gone *)
Returned(answer) == [ SensorLocals("idle", FALSE) EXCEPT !.answer = answer ]

(* where a thread is after its update block or after a failed read *)
AfterUpdate(t) == IF t = POLL THEN "sleep" ELSE "rlock"

(* read_sensor_once: sensor.read() gives two values, or None, or raises; *)
(* a failure is caught by the caller's except: the loop prints and goes  *)
(* on to its sleep, the request is answered 503.  The read runs outside  *)
(* data_lock, so the reads of two threads may overlap: each of them      *)
(* succeeds or fails.                                                     *)
read_sensor_once(t) ==
    /\ SensorAt(t, "read")
    /\ \/ /\ sensor.reads < MaxReads
          /\ sensor' = [ sensor EXCEPT
                 !.reads = @ + 1,
                 !.th[t].humi = sensor.reads + 1,
                 !.th[t].temp = sensor.reads + 1,
                 !.th[t].pc = "lock" ]
       \/ /\ sensor' = [ sensor EXCEPT
                 !.th[t] = IF t = POLL THEN [ @ EXCEPT !.pc = "sleep" ]
                           ELSE Returned(HttpError("503")) ]
    /\ UNCHANGED scannerVars

(* mutant of update_acquire: the update block runs without data_lock *)
update_acquire_unlocked(t) ==
    /\ SensorAt(t, "lock")
    /\ sensor' = [ sensor EXCEPT !.th[t].pc = "w_temp" ]
    /\ UNCHANGED scannerVars

(* with data_lock: of the update block *)
update_acquire(t) ==
    /\ SensorAt(t, "lock")
    /\ sensor.data_lock = NoHolder
    /\ sensor' = [ sensor EXCEPT !.data_lock = t, !.th[t].pc = "w_temp" ]
    /\ UNCHANGED scannerVars

(* latest_data["temperature"] = temp *)
update_temperature(t) ==
    /\ SensorAt(t, "w_temp")
    /\ sensor' = [ sensor EXCEPT
           !.latest_data.temperature = sensor.th[t].temp,
           !.th[t].pc = "w_humi" ]
    /\ UNCHANGED scannerVars

(* latest_data["humidity"] = humi *)
update_humidity(t) ==
    /\ SensorAt(t, "w_humi")
    /\ sensor' = [ sensor EXCEPT
           !.latest_data.humidity = sensor.th[t].humi,
           !.th[t].pc = "w_ts" ]
    /\ UNCHANGED scannerVars

(* latest_data["timestamp"] = time.time(), and the end of the with block *)
update_timestamp(t) ==
    /\ SensorAt(t, "w_ts")
    /\ sensor' = [ sensor EXCEPT
           !.latest_data.timestamp = sensor.th[t].temp,
           !.data_lock = NoHolder,
           !.th[t].pc = AfterUpdate(t) ]
    /\ UNCHANGED scannerVars

(* time.sleep(poll_interval) and the next turn of while True *)
sensor_loop_sleep ==
    /\ SensorAt(POLL, "sleep")
    /\ sensor' = [ sensor EXCEPT !.th[POLL].pc = "read" ]
    /\ UNCHANGED scannerVars

(* GET /temp arrives: if fresh, read the sensor first *)
get_temp(r, fresh) ==
    /\ SensorAt(r, "idle")
    /\ sensor' = [ sensor EXCEPT
           !.th[r] = SensorLocals(IF fresh THEN "read" ELSE "rlock", fresh) ]
    /\ UNCHANGED scannerVars

(* with data_lock: of the block that reads the cache *)
get_temp_acquire(r) ==
    /\ SensorAt(r, "rlock")
    /\ sensor.data_lock = NoHolder
    /\ sensor' = [ sensor EXCEPT !.data_lock = r, !.th[r].pc = "r_temp" ]
    /\ UNCHANGED scannerVars

(* temp = latest_data["temperature"] *)
get_temp_temperature(r) ==
    /\ SensorAt(r, "r_temp")
    /\ sensor' = [ sensor EXCEPT
           !.th[r].temp = sensor.latest_data.temperature,
           !.th[r].pc = "r_humi" ]
    /\ UNCHANGED scannerVars

(* humi = latest_data["humidity"] *)
get_temp_humidity(r) ==
    /\ SensorAt(r, "r_humi")
    /\ sensor' = [ sensor EXCEPT
           !.th[r].humi = sensor.latest_data.humidity,
           !.th[r].pc = "r_ts" ]
    /\ UNCHANGED scannerVars

(* ts = latest_data["timestamp"], and the end of the with block *)
get_temp_timestamp(r) ==
    /\ SensorAt(r, "r_ts")
    /\ sensor' = [ sensor EXCEPT
           !.th[r].ts = sensor.latest_data.timestamp,
           !.data_lock = NoHolder,
           !.th[r].pc = "check" ]
    /\ UNCHANGED scannerVars

(* the two tests after the block: not ready, stale (the age depends on  *)
(* the clock: either outcome when the request is not fresh)             *)
get_temp_check(r) ==
    /\ SensorAt(r, "check")
    /\ LET me == sensor.th[r]
           none == NoReading \in { me.temp, me.humi, me.ts }
       IN  \/ /\ none
              /\ sensor' = [ sensor EXCEPT !.th[r] = Returned(HttpError("503")) ]
           \/ /\ ~none
              /\ ~me.fresh
              /\ sensor' = [ sensor EXCEPT !.th[r] = Returned(HttpError("503")) ]
           \/ /\ ~none
              /\ sensor' = [ sensor EXCEPT !.th[r].pc = "lcd" ]
    /\ UNCHANGED scannerVars

(* lcd_write_16x2 and the return; a failure of the display is not caught *)
get_temp_return(r) ==
    /\ SensorAt(r, "lcd")
    /\ LET me == sensor.th[r]
       IN  \/ sensor' = [ sensor EXCEPT
                  !.th[r] = Returned(SensorAnswer("200", me.temp, me.humi, me.ts)) ]
           \/ sensor' = [ sensor EXCEPT !.th[r] = Returned(HttpError("500")) ]
    /\ UNCHANGED scannerVars

NextSensor ==
    \/ \E t \in SensorThreads : read_sensor_once(t)
    \/ \E t \in SensorThreads : update_acquire(t)
    \/ \E t \in SensorThreads : update_temperature(t)
    \/ \E t \in SensorThreads : update_humidity(t)
    \/ \E t \in SensorThreads : update_timestamp(t)
    \/ sensor_loop_sleep
    \/ \E r \in Requests, fresh \in BOOLEAN : get_temp(r, fresh)
    \/ \E r \in Requests : get_temp_acquire(r)
    \/ \E r \in Requests : get_temp_temperature(r)
    \/ \E r \in Requests : get_temp_humidity(r)
    \/ \E r \in Requests : get_temp_timestamp(r)
    \/ \E r \in Requests : get_temp_check(r)
    \/ \E r \in Requests : get_temp_return(r)

SpecSensor == Init /\ [][NextSensor]_vars

(* the positions of sensor_loop: all of them are inside while True *)
LoopPositions == { "read", "lock", "w_temp", "w_humi", "w_ts", "sleep" }

(* the three values come from one sensor read *)
OneRead(temp, humi, ts) == temp # NoReading /\ temp = humi /\ humi = ts

(* thread t leaves read_sensor_once by its exception *)
ReadFails(t) == SensorAt(t, "read") /\ sensor'.th[t].pc \notin { "read", "lock" }

(* C37: every reading that GET /temp returns has a temperature, a      *)
(* humidity and a timestamp of one and the same sensor read, and so    *)
(* has the cache whenever no thread is inside a data_lock block; a     *)
(* failed sensor read leaves the cache as it was, and after it the     *)
(* polling thread is at its sleep, from where it reads again.          *)
C37_ReadingsAreAtomic ==
    [][/\ \A r \in Requests :
             sensor'.th[r].answer.kind = "200" =>
                 OneRead(sensor'.th[r].answer.temperature_c,
                         sensor'.th[r].answer.humidity_percent,
                         sensor'.th[r].answer.timestamp)
       /\ sensor'.data_lock = NoHolder =>
             \/ sensor'.latest_data = NoData
             \/ OneRead(sensor'.latest_data.temperature,
                        sensor'.latest_data.humidity,
                        sensor'.latest_data.timestamp)
       /\ \A t \in SensorThreads :
             ReadFails(t) =>
                 /\ sensor'.latest_data = sensor.latest_data
                 /\ t = POLL => sensor'.th[POLL].pc = "sleep"
       /\ sensor'.th[POLL].pc \in LoopPositions
       /\ SensorAt(POLL, "sleep") => sensor'.th[POLL].pc \in { "sleep", "read" } ]_vars

(* a request has been answered with the first reading while the        *)
(* polling thread is half way through storing the second and another   *)
(* request waits for data_lock                                         *)
C37_Witness ==
    /\ sensor.data_lock = POLL
    /\ sensor.latest_data.temperature = 2
    /\ sensor.latest_data.humidity = 1
    /\ \E r \in Requests : sensor.th[r].answer = SensorAnswer("200", 1, 1, 1)
    /\ \E r \in Requests : SensorAt(r, "rlock")

====
